---- MODULE Spec2Model ----
(***************************************************************************)
(* Task lifecycle engine of sleepless-opencode: the SQLite task queue      *)
(* (TaskQueue, db.ts), the Scheduler (Daemon.start / processNext /         *)
(* runTaskWithLoop, daemon.ts) and the ingress adapters (create, cancel).  *)
(*                                                                         *)
(* Time is the wall clock in seconds.  created_at and retry_after hold     *)
(* times; a NULL retry_after is the empty sequence <<>> and a value t is   *)
(* <<t>>.  started_at and completed_at are never compared by the code, so  *)
(* only whether they are set is kept ("NULL" or "datetime").  A NULL       *)
(* depends_on is 0 (the code maps a falsy depends_on to NULL) and a NULL   *)
(* text column is the string "NULL".  A stored error, the text             *)
(* `[errorType] message`, is the pair <<errorType, message>>, and a NULL   *)
(* error is <<>>.                                                          *)
(***************************************************************************)
EXTENDS Integers, Sequences, FiniteSets, TLC

VARIABLES
    tasks,        \* the tasks table: tasks[id] is the row with that id
    now,          \* wall clock, seconds
    pc,           \* where the daemon process is
    cur,          \* Daemon.processNext: id of `task` (0 when none)
    caught,       \* the error the catch block of processNext is handling
    cancelTrue,   \* history: per id, whether cancel has returned true
    failures,     \* history: per id, failed executions handed to the retry policy
    ret,          \* history: the last call of the queue harness and what it
                  \* returned; in the daemon, the reset made by the last start
    shutdown,     \* index.ts: the signals the daemon process has received and,
                  \* once it is down, how it went down
    lockFile,     \* per working directory, the pid in data/.daemon.lock (0: no file)
    dataDir,      \* per working directory, whether its data directory exists
    proc,         \* the daemon processes launched: where each is in main()
    elapsed,      \* ms since the running execution (.task) and its current
                  \* iteration (.iteration) began
    notifier,     \* Notifier: its channels and webhooks in the order they were
                  \* added, and what the last notify did (.sent)
    session,      \* the runner's session as of the executor's last look at it:
                  \* status, messages, todos
    sdk           \* the iteration under way or just ended: the TaskState it
                  \* polls with, its clocks and what it returned

vars == <<tasks, now, pc, cur, caught, cancelTrue, failures, ret, shutdown,
          lockFile, dataDir, proc, elapsed, notifier, session, sdk>>

lockVars == <<lockFile, dataDir, proc>>

sdkVars == <<session, sdk>>

-----------------------------------------------------------------------------
(* Bounds of the model *)

MaxTasks == 2
MaxTime == 1
MaxIteration == 1
MaxProcs == 3

(* Inputs of create that the model enumerates.  An optional number is <<>>  *)
(* when it is not supplied and <<n>> when it is; a priority not supplied is *)
(* "absent" and a depends_on not supplied is 0.                             *)
PriorityInputs == {"absent", "urgent"}
MaxRetriesInputs == {<<1>>}
MaxIterationsInputs == {<<1>>}

-----------------------------------------------------------------------------
(* Types of db.ts *)

TaskStatus == {"pending", "running", "done", "failed", "cancelled"}

TaskPriority == {"low", "medium", "high", "urgent"}

ErrorType == {"rate_limit", "context_exceeded", "agent_not_found",
              "tool_result_missing", "thinking_block_error", "timeout", "unknown"}

NULL == <<>>

DefaultMaxIterations == 10

DefaultMaxRetries == 3

Min(a, b) == IF a <= b THEN a ELSE b

Ids(ts) == 1..Len(ts)

-----------------------------------------------------------------------------
(* TaskQueue (db.ts) as functions of the table *)

\* a string is kept as its length and the length of its trim()
Text(length, trimmed) == [length |-> length, trimmed |-> trimmed]

\* a path is kept as its text, its length and the patterns of
\* validateProjectPath that match it
Path(text, length, patterns) == [text |-> text, length |-> length, patterns |-> patterns]

\* a project_path that is not supplied, and the NULL of the column
NoPath == Path("undefined", 0, {})

NullPath == Path("NULL", 0, {})

\* `project_path || null`: NULL for undefined and for ""
PathOrNull(path) == IF path.length = 0 THEN NullPath ELSE path

\* `created_by || null`
CreatedByOrNull(createdBy) == IF createdBy \in {"undefined", ""} THEN "NULL" ELSE createdBy

\* `x || d` for an optional number: d when x is undefined or 0
OrDefault(x, d) == IF x = NULL \/ x = <<0>> THEN d ELSE x[1]

\* INSERT with the column defaults of initDb; `f.x || d` takes d for a falsy
\* x, so an empty project_path or created_by is stored as NULL
create(ts, f, t) ==
    Append(ts, [prompt         |-> f.prompt,
                project_path   |-> PathOrNull(f.project_path),
                status         |-> "pending",
                priority       |-> IF f.priority = "absent" THEN "medium" ELSE f.priority,
                result         |-> "NULL",
                error          |-> NULL,
                error_type     |-> "NULL",
                session_id     |-> "NULL",
                iteration      |-> 0,
                max_iterations |-> OrDefault(f.max_iterations, DefaultMaxIterations),
                retry_count    |-> 0,
                max_retries    |-> OrDefault(f.max_retries, DefaultMaxRetries),
                retry_after    |-> NULL,
                created_at     |-> t,
                started_at     |-> "NULL",
                completed_at   |-> "NULL",
                created_by     |-> CreatedByOrNull(f.created_by),
                source         |-> f.source,
                depends_on     |-> f.depends_on])

\* mutant of getRunning: the query matches no row
getRunningNone(ts) == {}

\* SELECT * FROM tasks WHERE status = 'running' LIMIT 1: the candidates (empty: undefined)
getRunning(ts) == {i \in Ids(ts) : ts[i].status = "running"}

setRunning(ts, id, sessionId) ==
    IF id \in Ids(ts)
    THEN [ts EXCEPT ![id].status = "running", ![id].started_at = "datetime",
                    ![id].session_id = sessionId]
    ELSE ts

incrementIteration(ts, id) ==
    IF id \in Ids(ts) THEN [ts EXCEPT ![id].iteration = @ + 1] ELSE ts

updateSessionId(ts, id, sessionId) ==
    IF id \in Ids(ts) THEN [ts EXCEPT ![id].session_id = sessionId] ELSE ts

setDone(ts, id, result) ==
    IF id \in Ids(ts)
    THEN [ts EXCEPT ![id].status = "done", ![id].result = result,
                    ![id].completed_at = "datetime"]
    ELSE ts

setFailed(ts, id, error, errorType) ==
    IF id \in Ids(ts)
    THEN [ts EXCEPT ![id].status = "failed", ![id].error = error,
                    ![id].error_type = errorType, ![id].completed_at = "datetime"]
    ELSE ts

\* UPDATE ... WHERE id = ? AND status = 'pending'; returns changes > 0
cancel(ts, id) ==
    IF id \in Ids(ts) /\ ts[id].status = "pending"
    THEN [tasks |-> [ts EXCEPT ![id].status = "cancelled"], ret |-> TRUE]
    ELSE [tasks |-> ts, ret |-> FALSE]

\* SELECT * FROM tasks WHERE depends_on = ? AND status = 'pending'
getDependentTasks(ts, taskId) ==
    {i \in Ids(ts) : ts[i].depends_on = taskId /\ ts[i].status = "pending"}

\* mutant of failDependentTasks: the children are failed whatever their status
failDependentTasksAnyStatus(ts, taskId, reason) ==
    [i \in Ids(ts) |->
        IF ts[i].depends_on = taskId
        THEN [ts[i] EXCEPT !.status = "failed", !.error = <<reason>>,
                           !.error_type = "dependency_failed",
                           !.completed_at = "datetime"]
        ELSE ts[i]]

\* UPDATE ... WHERE depends_on = ? AND status = 'pending'
failDependentTasks(ts, taskId, reason) ==
    [i \in Ids(ts) |->
        IF ts[i].depends_on = taskId /\ ts[i].status = "pending"
        THEN [ts[i] EXCEPT !.status = "failed", !.error = <<reason>>,
                           !.error_type = "dependency_failed",
                           !.completed_at = "datetime"]
        ELSE ts[i]]

\* mutant of resetToPending: iteration and session_id are not cleared
resetToPendingKeepsProgress(ts, id) ==
    IF id \in Ids(ts)
    THEN [ts EXCEPT ![id].status = "pending", ![id].started_at = "NULL"]
    ELSE ts

resetToPending(ts, id) ==
    IF id \in Ids(ts)
    THEN [ts EXCEPT ![id].status = "pending", ![id].started_at = "NULL",
                    ![id].session_id = "NULL", ![id].iteration = 0]
    ELSE ts

\* mutant of scheduleRetry: session_id and started_at are not cleared
scheduleRetryKeepsSession(ts, id, delaySeconds, t) ==
    IF id \notin Ids(ts) \/ ts[id].retry_count >= ts[id].max_retries
    THEN [tasks |-> ts, ret |-> FALSE]
    ELSE [tasks |-> [ts EXCEPT ![id].status = "pending",
                               ![id].retry_count = @ + 1,
                               ![id].retry_after = <<t + delaySeconds>>,
                               ![id].iteration = 0,
                               ![id].error = NULL],
          ret |-> TRUE]

\* mutant of scheduleRetry: the iteration count is not put back to 0
scheduleRetryKeepsIteration(ts, id, delaySeconds, t) ==
    IF id \notin Ids(ts) \/ ts[id].retry_count >= ts[id].max_retries
    THEN [tasks |-> ts, ret |-> FALSE]
    ELSE [tasks |-> [ts EXCEPT ![id].status = "pending",
                               ![id].retry_count = @ + 1,
                               ![id].retry_after = <<t + delaySeconds>>,
                               ![id].session_id = "NULL",
                               ![id].started_at = "NULL",
                               ![id].error = NULL],
          ret |-> TRUE]

\* mutant of scheduleRetry: the guard is retry_count > max_retries
scheduleRetryOffByOne(ts, id, delaySeconds, t) ==
    IF id \notin Ids(ts) \/ ts[id].retry_count > ts[id].max_retries
    THEN [tasks |-> ts, ret |-> FALSE]
    ELSE [tasks |-> [ts EXCEPT ![id].status = "pending",
                               ![id].retry_count = @ + 1,
                               ![id].retry_after = <<t + delaySeconds>>,
                               ![id].iteration = 0,
                               ![id].session_id = "NULL",
                               ![id].started_at = "NULL",
                               ![id].error = NULL],
          ret |-> TRUE]

scheduleRetry(ts, id, delaySeconds, t) ==
    IF id \notin Ids(ts) \/ ts[id].retry_count >= ts[id].max_retries
    THEN [tasks |-> ts, ret |-> FALSE]
    ELSE [tasks |-> [ts EXCEPT ![id].status = "pending",
                               ![id].retry_count = @ + 1,
                               ![id].retry_after = <<t + delaySeconds>>,
                               ![id].iteration = 0,
                               ![id].session_id = "NULL",
                               ![id].started_at = "NULL",
                               ![id].error = NULL],
          ret |-> TRUE]

\* CASE priority WHEN 'urgent' THEN 0 ... END
PriorityRank(p) ==
    CASE p = "urgent" -> 0
      [] p = "high"   -> 1
      [] p = "medium" -> 2
      [] p = "low"    -> 3

\* mutant of Selectable: the dependency condition is left out
SelectableIgnoringDependency(ts, i, t) ==
    /\ ts[i].status = "pending"
    /\ (ts[i].retry_after = NULL \/ ts[i].retry_after[1] <= t)

\* mutant of Selectable: the retry_after condition is left out
SelectableIgnoringRetryAfter(ts, i, t) ==
    /\ ts[i].status = "pending"
    /\ \/ ts[i].depends_on = 0
       \/ /\ ts[i].depends_on \in Ids(ts)
          /\ ts[ts[i].depends_on].status = "done"

\* the WHERE clause of getNextRetryable; dep is the LEFT JOINed row
Selectable(ts, i, t) ==
    /\ ts[i].status = "pending"
    /\ (ts[i].retry_after = NULL \/ ts[i].retry_after[1] <= t)
    /\ \/ ts[i].depends_on = 0
       \/ /\ ts[i].depends_on \in Ids(ts)
          /\ ts[ts[i].depends_on].status = "done"

\* the ORDER BY of getNextRetryable: row i sorts no later than row j
OrderedBefore(ts, i, j) ==
    \/ PriorityRank(ts[i].priority) < PriorityRank(ts[j].priority)
    \/ /\ PriorityRank(ts[i].priority) = PriorityRank(ts[j].priority)
       /\ ts[i].created_at <= ts[j].created_at

\* getNextRetryable: the rows LIMIT 1 can return (empty: undefined).  Rows
\* that are equal under the ORDER BY come out in an order SQLite leaves
\* undefined, so each of them is a possible first row.
getNextRetryable(ts, t) ==
    {i \in Ids(ts) : /\ Selectable(ts, i, t)
                     /\ \A j \in Ids(ts) : Selectable(ts, j, t) => OrderedBefore(ts, i, j)}

-----------------------------------------------------------------------------
(* Error classifier and retry policy (daemon.ts) *)

\* The runner errors the model draws from, each with the substrings (of those
\* the classifier looks for) that its lower-cased message includes.
ErrorSubstrings ==
    [rate_limit_exceeded     |-> {"rate", "limit", "exceeded"},
     context_length_exceeded |-> {"context", "length", "exceeded"},
     agent_not_found         |-> {"agent", "not found"},
     missing_tool_result     |-> {"tool_use", "tool_result"},
     iteration_timed_out     |-> {"timed out"},
     exited_with_code_1      |-> {}]

ErrorMessages == DOMAIN ErrorSubstrings

\* Further messages, most of which satisfy the rules of several classes
MixedSubstrings ==
    [thinking_block_invalid          |-> {"thinking", "block"},
     rate_limit_context_window       |-> {"rate", "limit", "context", "window"},
     rate_limit_timeout              |-> {"rate", "limit", "timeout"},
     context_window_agent_undefined  |-> {"context", "window", "agent", "undefined"},
     context_length_timed_out        |-> {"context", "length", "timed out"},
     agent_not_found_tool_result     |-> {"agent", "not found", "tool_use", "tool_result"},
     agent_undefined_timeout         |-> {"agent", "undefined", "timeout"},
     tool_result_thinking_disabled   |-> {"tool_use", "tool_result", "thinking", "disabled"},
     tool_result_timed_out           |-> {"tool_use", "tool_result", "timed out"},
     thinking_block_timeout          |-> {"thinking", "block", "timeout"},
     separate_context_length         |-> {"rate", "context", "length"},
     limit_agent_tool_use_timeout    |-> {"limit", "agent", "tool_use", "timeout"},
     every_substring                 |-> {"rate", "limit", "context", "length", "window",
                                          "exceeded", "agent", "not found", "undefined",
                                          "tool_use", "tool_result", "thinking", "block",
                                          "disabled", "timeout", "timed out"}]

ClassifierMessages == ErrorMessages \cup DOMAIN MixedSubstrings

\* message.includes(s)
includes(message, s) == s \in (ErrorSubstrings @@ MixedSubstrings)[message]

\* mutant of detectErrorType: the timeout rule is tried first
detectErrorTypeTimeoutFirst(message) ==
    IF includes(message, "timeout") \/ includes(message, "timed out") THEN "timeout"
    ELSE IF includes(message, "rate") /\ includes(message, "limit") THEN "rate_limit"
    ELSE IF includes(message, "context")
            /\ (includes(message, "length") \/ includes(message, "window")
                \/ includes(message, "exceeded")) THEN "context_exceeded"
    ELSE IF includes(message, "agent")
            /\ (includes(message, "not found") \/ includes(message, "undefined"))
         THEN "agent_not_found"
    ELSE IF includes(message, "tool_use") /\ includes(message, "tool_result")
         THEN "tool_result_missing"
    ELSE IF includes(message, "thinking")
            /\ (includes(message, "block") \/ includes(message, "disabled"))
         THEN "thinking_block_error"
    ELSE "unknown"

detectErrorType(message) ==
    IF includes(message, "rate") /\ includes(message, "limit") THEN "rate_limit"
    ELSE IF includes(message, "context")
            /\ (includes(message, "length") \/ includes(message, "window")
                \/ includes(message, "exceeded")) THEN "context_exceeded"
    ELSE IF includes(message, "agent")
            /\ (includes(message, "not found") \/ includes(message, "undefined"))
         THEN "agent_not_found"
    ELSE IF includes(message, "tool_use") /\ includes(message, "tool_result")
         THEN "tool_result_missing"
    ELSE IF includes(message, "thinking")
            /\ (includes(message, "block") \/ includes(message, "disabled"))
         THEN "thinking_block_error"
    ELSE IF includes(message, "timeout") \/ includes(message, "timed out") THEN "timeout"
    ELSE "unknown"

\* mutant of calculateRetryDelay: the delay is not capped
calculateRetryDelayUncapped(retryCount) == 30 * 2^retryCount

\* mutant of calculateRetryDelay: the delay grows linearly
calculateRetryDelayLinear(retryCount) == 30 * (retryCount + 1)

baseDelay == 30

maxDelay == 600

calculateRetryDelay(retryCount) == Min(baseDelay * 2^retryCount, maxDelay)

\* mutant of shouldRetry: every class is retried
shouldRetryAlways(errorType) == TRUE

\* const shouldRetry = errorType !== "agent_not_found" && errorType !== "context_exceeded"
shouldRetry(errorType) == errorType /= "agent_not_found" /\ errorType /= "context_exceeded"

-----------------------------------------------------------------------------
(* State after construction: an empty table, no daemon process *)

NoCall == [op |-> "none", id |-> 0, ret |-> FALSE]

\* the working directories daemons are launched in
Cwds == {"a", "b"}

\* no session yet
NoSession == [status |-> "idle", messages |-> <<>>, todos |-> <<>>]

\* a fresh TaskState: taskStates.set(task.id, {startedAt: new Date(),
\* lastMessageCount: 0, stablePolls: 0, ...})
NewTaskState == [elapsedMs |-> 0, lastMessageCount |-> 0, stablePolls |-> 0]

NoResult == [isComplete |-> FALSE, needsContinuation |-> FALSE]

\* no iteration yet; sessionId is the session the iteration talks to and
\* returns (0: null), created the sessions the execution has made so far
NoIteration ==
    [pc |-> "none", of |-> <<0, 0, 0>>, state |-> NewTaskState, expired |-> FALSE,
     streak |-> 0, via |-> "none", result |-> NoResult, sessionId |-> 0, created |-> 0]

\* no notification yet; id and status are the task of the event as the
\* event shows it
NotSent == [type |-> "none", invoked |-> <<>>, delivered |-> {}, settled |-> "fulfilled",
            id |-> 0, status |-> "none"]

\* a pid no process has yet: cwd and data_dir are the directories of its
\* lock file and of its database, pid the pid acquireLock read from the file
NoProcess == [pc |-> "unborn", cwd |-> "a", data_dir |-> "a", pid |-> 0, refused |-> FALSE]

Init ==
    /\ tasks = <<>>
    /\ now = 0
    /\ pc = "down"
    /\ cur = 0
    /\ caught = "none"
    /\ cancelTrue = [i \in 1..MaxTasks |-> FALSE]
    /\ failures = [i \in 1..MaxTasks |-> 0]
    /\ ret = NoCall
    /\ shutdown = "none"
    /\ lockFile = [d \in Cwds |-> 0]
    /\ dataDir = [d \in Cwds |-> FALSE]
    /\ proc = [p \in 1..MaxProcs |-> NoProcess]
    /\ elapsed = [task |-> 0, iteration |-> 0]
    /\ notifier = [channels |-> <<>>, webhooks |-> <<>>, sent |-> NotSent]
    /\ session = NoSession
    /\ sdk = NoIteration

daemonVars == <<pc, cur, caught>>

engineVars == <<tasks, now, pc, cur, caught, cancelTrue, failures, ret, shutdown,
               elapsed, notifier, session, sdk>>

-----------------------------------------------------------------------------
(* The clock *)

\* a second passes
Tick ==
    /\ now < MaxTime
    /\ now' = now + 1
    /\ UNCHANGED <<tasks, daemonVars, cancelTrue, failures, ret, lockVars, sdkVars, notifier, elapsed, shutdown>>

\* time passes until the next retry_after falls due
WaitForRetry ==
    /\ \E i \in Ids(tasks) :
          /\ tasks[i].retry_after /= NULL
          /\ tasks[i].retry_after[1] > now
          /\ \A j \in Ids(tasks) :
                (tasks[j].retry_after /= NULL /\ tasks[j].retry_after[1] > now)
                    => tasks[i].retry_after[1] <= tasks[j].retry_after[1]
          /\ now' = tasks[i].retry_after[1]
    /\ UNCHANGED <<tasks, daemonVars, cancelTrue, failures, ret, lockVars, sdkVars, notifier, elapsed, shutdown>>

-----------------------------------------------------------------------------
(* Ingress adapters (Discord, Slack, CLI, MCP server): create and cancel *)

\* the prompt, path, author and source of the tasks of the daemon's runs
APrompt == Text(11, 11)

TaskCreates(ts) ==
    [prompt : {APrompt}, project_path : {NoPath}, created_by : {"undefined"}, source : {"cli"},
     priority : PriorityInputs, max_iterations : MaxIterationsInputs,
     max_retries : MaxRetriesInputs, depends_on : 0..Len(ts)]

\* the same with the priority left out
QueueCreates(ts) ==
    [prompt : {APrompt}, project_path : {NoPath}, created_by : {"undefined"}, source : {"cli"},
     priority : {"absent"}, max_iterations : MaxIterationsInputs,
     max_retries : MaxRetriesInputs, depends_on : 0..Len(ts)]

Create(f) ==
    /\ Len(tasks) < MaxTasks
    /\ tasks' = create(tasks, f, now)
    /\ UNCHANGED <<now, daemonVars, cancelTrue, failures, ret, lockVars, sdkVars, notifier, elapsed, shutdown>>

Cancel(id) ==
    /\ tasks' = cancel(tasks, id).tasks
    /\ cancelTrue' = IF cancel(tasks, id).ret
                     THEN [cancelTrue EXCEPT ![id] = TRUE]
                     ELSE cancelTrue
    /\ UNCHANGED <<now, daemonVars, failures, ret, lockVars, sdkVars, notifier, elapsed, shutdown>>

-----------------------------------------------------------------------------
(* The daemon process: Daemon.start and Daemon.processNext *)

\* the process is launched and start() runs up to its loop: a task found
\* running is reset to pending
Start ==
    /\ pc = "down"
    /\ \/ /\ getRunning(tasks) = {}
          /\ tasks' = tasks
          /\ ret' = NoCall
       \/ \E stuckTask \in getRunning(tasks) :
             /\ tasks' = resetToPending(tasks, stuckTask)
             /\ ret' = [op |-> "resetToPending", id |-> stuckTask, ret |-> FALSE]
    /\ pc' = "loop"
    /\ shutdown' = "none"
    /\ UNCHANGED <<now, cur, caught, cancelTrue, failures, lockVars, sdkVars, notifier, elapsed>>

\* a round of the loop `while (this.running)` of start: processNext up to
\* the await of the `started` notification
ProcessNext ==
    /\ pc = "loop"
    /\ shutdown = "none"
    /\ IF getRunning(tasks) /= {} \/ getNextRetryable(tasks, now) = {}
       THEN pc' = "loop" /\ cur' = cur
       ELSE \E task \in getNextRetryable(tasks, now) : cur' = task /\ pc' = "started"
    /\ UNCHANGED <<tasks, now, caught, cancelTrue, failures, ret, lockVars, sdkVars, notifier, elapsed, shutdown>>

\* mutant of LoopHead: the loop returns when the count reaches max_iterations
LoopHeadStopsEarly(ts) ==
    LET counted == incrementIteration(ts, cur)
    IN  IF counted[cur].iteration >= tasks[cur].max_iterations
        THEN /\ tasks' = setDone(counted, cur, "max_iterations_reached")
             /\ pc' = "notifying"
        ELSE /\ tasks' = counted
             /\ pc' = "iterating"

\* the head of the while loop of runTaskWithLoop, on table ts: the iteration
\* is counted, and past max_iterations the loop returns and processNext
\* stores the result with setDone
LoopHead(ts) ==
    LET counted == incrementIteration(ts, cur)
        maxIterations == IF tasks[cur].max_iterations = 0 THEN DefaultMaxIterations
                         ELSE tasks[cur].max_iterations
    IN  IF counted[cur].iteration > maxIterations
        THEN /\ tasks' = setDone(counted, cur, "max_iterations_reached")
             /\ pc' = "notifying"
        ELSE /\ tasks' = counted
             /\ pc' = "iterating"

\* runTaskWithLoop from setRunning to the await of the first iteration
RunTaskWithLoop ==
    /\ pc = "started"
    /\ LoopHead(setRunning(tasks, cur, "loop"))
    /\ elapsed' = [task |-> 0, iteration |-> 0]
    /\ UNCHANGED <<now, cur, caught, cancelTrue, failures, ret, lockVars, sdkVars, notifier, shutdown>>

\* an iteration returns: the loop ends (setDone) or goes round again
IterationReturns(isComplete, needsContinuation, sessionId) ==
    /\ pc = "iterating"
    /\ LET ts == IF sessionId /= "NULL" THEN updateSessionId(tasks, cur, sessionId)
                 ELSE tasks
       IN  IF isComplete \/ ~needsContinuation
           THEN /\ tasks' = setDone(ts, cur, "output")
                /\ pc' = "notifying"
           ELSE LoopHead(ts)
    /\ elapsed' = [elapsed EXCEPT !.iteration = 0]
    /\ UNCHANGED <<now, cur, caught, cancelTrue, failures, ret, lockVars, sdkVars, notifier, shutdown>>

\* the catch block of processNext after the recovery attempt, if any:
\* schedule a retry or fail the task for good
RetryDecision(message) ==
    LET errorType == detectErrorType(message)
        updatedTask == tasks[cur]
        retryDelay == calculateRetryDelay(updatedTask.retry_count)
        retry == scheduleRetry(tasks, cur, retryDelay, now)
        canRetry == shouldRetry(errorType) /\ retry.ret
        errorDetails == <<errorType, message>>
    IN  /\ tasks' = IF canRetry THEN retry.tasks
                    ELSE setFailed(tasks, cur, errorDetails, errorType)
        /\ failures' = [failures EXCEPT ![cur] = @ + 1]
        /\ pc' = "notifying"

\* an iteration throws: processNext classifies the error and either awaits
\* the tool_result_missing recovery or decides on the retry
IterationThrows(message) ==
    /\ pc = "iterating"
    /\ IF detectErrorType(message) = "tool_result_missing" /\ tasks[cur].session_id /= "NULL"
       THEN /\ pc' = "recovering"
            /\ caught' = message
            /\ UNCHANGED <<tasks, failures>>
       ELSE /\ RetryDecision(message)
            /\ caught' = message
    /\ UNCHANGED <<now, cur, cancelTrue, ret, lockVars, sdkVars, notifier, elapsed, shutdown>>

\* recoverToolResultMissing returns: on success processNext returns at once
RecoveryReturns(recovered) ==
    /\ pc = "recovering"
    /\ IF recovered
       THEN /\ pc' = "loop"
            /\ cur' = 0
            /\ UNCHANGED <<tasks, failures>>
       ELSE /\ RetryDecision(caught)
            /\ cur' = cur
    /\ caught' = IF recovered THEN "none" ELSE caught
    /\ UNCHANGED <<now, cancelTrue, ret, lockVars, sdkVars, notifier, elapsed, shutdown>>

\* the `completed` / `failed` notification resolves; finally block, the
\* poll sleep, and the loop comes round
Notified ==
    /\ pc = "notifying"
    /\ pc' = "loop"
    /\ cur' = 0
    /\ caught' = "none"
    /\ UNCHANGED <<tasks, now, cancelTrue, failures, ret, lockVars, sdkVars, notifier, elapsed, shutdown>>

\* the process dies (crash, kill, forced exit) wherever it is
Crash ==
    /\ pc /= "down"
    /\ pc' = "down"
    /\ cur' = 0
    /\ caught' = "none"
    /\ shutdown' = "none"
    /\ UNCHANGED <<tasks, now, cancelTrue, failures, ret, lockVars, sdkVars, notifier, elapsed>>

SessionIds == {"NULL", "ses"}

iterationTimeoutMs == 600000

taskTimeoutMs == 1800000

\* the iteration under way goes on for another d ms: runSdkIteration polls
\* while less than the iteration timeout has passed, runCliIteration kills
\* the child process when its timer of iterationTimeoutMs fires
IterationRuns(d) ==
    /\ pc = "iterating"
    /\ elapsed.iteration + d <= iterationTimeoutMs
    /\ elapsed' = [task |-> elapsed.task + d, iteration |-> elapsed.iteration + d]
    /\ UNCHANGED <<tasks, now, daemonVars, cancelTrue, failures, ret, lockVars, sdkVars, notifier, shutdown>>

\* the iteration has used up iterationTimeoutMs and rejects
IterationTimesOut ==
    /\ elapsed.iteration >= iterationTimeoutMs
    /\ IterationThrows("iteration_timed_out")

\* the steps of the daemon process
Scheduler ==
    \/ Start
    \/ ProcessNext
    \/ RunTaskWithLoop
    \/ \E c, n \in BOOLEAN, s \in SessionIds : IterationReturns(c, n, s)
    \/ \E m \in ErrorMessages : IterationThrows(m)
    \/ \E r \in BOOLEAN : RecoveryReturns(r)
    \/ Notified
    \/ Crash

Next ==
    \/ Tick
    \/ WaitForRetry
    \/ \E f \in TaskCreates(tasks) : Create(f)
    \/ \E id \in 1..MaxTasks : Cancel(id)
    \/ Scheduler

\* The daemon and the adapters, any interleaving
Spec == Init /\ [][Next]_vars

-----------------------------------------------------------------------------
(* Signals (index.ts).  Daemon.gracefulStop is called by index.ts and is    *)
(* not among the sources; it is modelled as the specification describes it: *)
(* the Scheduler stops picking, the in-flight task is given                 *)
(* shutdown_timeout_ms, then the process exits.                             *)

\* SIGINT or SIGTERM: gracefulShutdown; one that arrives while a shutdown is
\* in progress only logs "Already shutting down, please wait..."
GracefulShutdown ==
    /\ pc /= "down"
    /\ shutdown \in {"none", "graceful"}
    /\ shutdown' = IF shutdown = "none" THEN "graceful" ELSE "asked_again"
    /\ UNCHANGED <<tasks, now, daemonVars, cancelTrue, failures, ret, lockVars, sdkVars, notifier, elapsed>>

\* gracefulStop returns before the timeout, no execution being in flight;
\* gracefulShutdown closes what is open and exits
GracefulStopReturns ==
    /\ shutdown \in {"graceful", "asked_again"}
    /\ pc = "loop"
    /\ pc' = "down"
    /\ shutdown' = "exited"
    /\ UNCHANGED <<tasks, now, cur, caught, cancelTrue, failures, ret, lockVars, sdkVars, notifier, elapsed>>

\* shutdown_timeout_ms passes with the execution still in flight: the
\* process exits
GracefulStopTimesOut ==
    /\ shutdown \in {"graceful", "asked_again"}
    /\ pc \notin {"loop", "down"}
    /\ pc' = "down"
    /\ cur' = 0
    /\ caught' = "none"
    /\ shutdown' = "timed_out"
    /\ UNCHANGED <<tasks, now, cancelTrue, failures, ret, lockVars, sdkVars, notifier, elapsed>>

\* mutant of ForceShutdown: the handler waits for an execution in flight
ForceShutdownWaits ==
    /\ pc /= "down"
    /\ shutdown /= "force_pending"
    /\ pc' = IF pc = "loop" THEN "down" ELSE pc
    /\ cur' = cur
    /\ caught' = caught
    /\ shutdown' = IF pc = "loop" THEN "forced" ELSE "force_pending"
    /\ UNCHANGED <<tasks, now, cancelTrue, failures, ret, lockVars, sdkVars, notifier, elapsed>>

\* SIGQUIT: forceShutdown calls daemon.stop(), which kills the current
\* external process and closes the SDK server, and process.exit(1)
ForceShutdown ==
    /\ pc /= "down"
    /\ pc' = "down"
    /\ cur' = 0
    /\ caught' = "none"
    /\ shutdown' = IF shutdown = "none" THEN "forced" ELSE "forced_while_stopping"
    /\ UNCHANGED <<tasks, now, cancelTrue, failures, ret, lockVars, sdkVars, notifier, elapsed>>

NextShutdown ==
    \/ Tick
    \/ WaitForRetry
    \/ \E f \in QueueCreates(tasks) : Create(f)
    \/ Scheduler
    \/ GracefulShutdown
    \/ GracefulStopReturns
    \/ GracefulStopTimesOut
    \/ ForceShutdown

\* The daemon, tasks being created, and the signals it can receive
SpecShutdown == Init /\ [][NextShutdown]_vars

-----------------------------------------------------------------------------
(* One task and its retries: the daemon working on a single task that is    *)
(* created with max_retries not supplied (the default) or supplied          *)

RetryCreates ==
    [prompt : {APrompt}, project_path : {NoPath}, created_by : {"undefined"}, source : {"cli"},
     priority : {"absent"}, max_iterations : MaxIterationsInputs,
     max_retries : {NULL, <<2>>}, depends_on : {0}]

CreateFirst(f) ==
    /\ tasks = <<>>
    /\ tasks' = create(tasks, f, now)
    /\ UNCHANGED <<now, daemonVars, cancelTrue, failures, ret, lockVars, sdkVars, notifier, elapsed, shutdown>>

NextRetry ==
    \/ Tick
    \/ WaitForRetry
    \/ \E f \in RetryCreates : CreateFirst(f)
    \/ \E id \in 1..MaxTasks : Cancel(id)
    \/ Scheduler

SpecRetry == Init /\ [][NextRetry]_vars

-----------------------------------------------------------------------------
(* The TaskQueue API called in any order, as its unit tests call it, at one  *)
(* moment of the clock; ret records what the last call returned (NoCall     *)
(* after a call of a void method)                                          *)

queueVars == <<daemonVars, cancelTrue, failures>>

Delays == {30, 60}

CallSetRunning(id) ==
    /\ tasks' = setRunning(tasks, id, "ses")
    /\ ret' = NoCall
    /\ UNCHANGED <<now, queueVars, lockVars, sdkVars, notifier, elapsed, shutdown>>

CallIncrementIteration(id) ==
    /\ id \in Ids(tasks)
    /\ tasks[id].iteration < MaxIteration
    /\ tasks' = incrementIteration(tasks, id)
    /\ ret' = NoCall
    /\ UNCHANGED <<now, queueVars, lockVars, sdkVars, notifier, elapsed, shutdown>>

CallSetDone(id) ==
    /\ tasks' = setDone(tasks, id, "output")
    /\ ret' = NoCall
    /\ UNCHANGED <<now, queueVars, lockVars, sdkVars, notifier, elapsed, shutdown>>

CallSetFailed(id, message) ==
    /\ tasks' = setFailed(tasks, id, <<detectErrorType(message), message>>,
                          detectErrorType(message))
    /\ ret' = NoCall
    /\ UNCHANGED <<now, queueVars, lockVars, sdkVars, notifier, elapsed, shutdown>>

CallCancel(id) ==
    /\ tasks' = cancel(tasks, id).tasks
    /\ ret' = [op |-> "cancel", id |-> id, ret |-> cancel(tasks, id).ret]
    /\ UNCHANGED <<now, queueVars, lockVars, sdkVars, notifier, elapsed, shutdown>>

CallResetToPending(id) ==
    /\ tasks' = resetToPending(tasks, id)
    /\ ret' = NoCall
    /\ UNCHANGED <<now, queueVars, lockVars, sdkVars, notifier, elapsed, shutdown>>

CallScheduleRetry(id, delaySeconds) ==
    /\ tasks' = scheduleRetry(tasks, id, delaySeconds, now).tasks
    /\ ret' = [op |-> "scheduleRetry", id |-> id,
               ret |-> scheduleRetry(tasks, id, delaySeconds, now).ret]
    /\ UNCHANGED <<now, queueVars, lockVars, sdkVars, notifier, elapsed, shutdown>>

NextQueue ==
    \/ \E f \in QueueCreates(tasks) : Create(f)
    \/ \E id \in 1..MaxTasks : CallSetRunning(id)
    \/ \E id \in 1..MaxTasks : CallIncrementIteration(id)
    \/ \E id \in 1..MaxTasks : CallSetDone(id)
    \/ \E id \in 1..MaxTasks : CallSetFailed(id, "iteration_timed_out")
    \/ \E id \in 1..MaxTasks : CallCancel(id)
    \/ \E id \in 1..MaxTasks : CallResetToPending(id)
    \/ \E id \in 1..MaxTasks, d \in Delays : CallScheduleRetry(id, d)

SpecQueue == Init /\ [][NextQueue]_vars

-----------------------------------------------------------------------------
(* Properties *)

Running(ts) == {i \in Ids(ts) : ts[i].status = "running"}

\* C1: in every reachable state, whatever the interleaving of create and
\* cancel with the Scheduler's steps, at most one task has status running.
AtMostOneRunning == Cardinality(Running(tasks)) <= 1

\* C1 witness: the Scheduler is at its pick while one task is running and
\* another task is eligible.
AtMostOneRunningWitness ==
    /\ pc = "loop"
    /\ \E i, j \in Ids(tasks) :
          i /= j /\ tasks[i].status = "running" /\ Selectable(tasks, j, now)

AllowedTransitions ==
    {<<"pending", "running">>, <<"running", "done">>, <<"running", "failed">>,
     <<"running", "pending">>, <<"pending", "cancelled">>}

\* C2: every change of a task's status is one of pending -> running,
\* running -> done, running -> failed, running -> pending and
\* pending -> cancelled; so cancelled is entered only from pending and a
\* done, failed or cancelled task keeps its status.
StatusStateMachine ==
    [][\A i \in Ids(tasks) :
          tasks'[i].status /= tasks[i].status
              => <<tasks[i].status, tasks'[i].status>> \in AllowedTransitions]_vars

\* C3: cancel(id) returns true exactly when the task is pending, and then
\* the task is cancelled; otherwise it returns false and the table is
\* unchanged; and it returns true at most once for an id.
CancelContract ==
    [][\A id \in 1..MaxTasks :
          Cancel(id) =>
              LET r == cancel(tasks, id)
              IN  /\ r.ret <=> (id \in Ids(tasks) /\ tasks[id].status = "pending")
                  /\ r.ret => tasks'[id].status = "cancelled" /\ ~cancelTrue[id]
                  /\ ~r.ret => tasks' = tasks]_vars

\* the step in which processNext picks a task
Picks == ProcessNext /\ pc' = "started"

\* C4: getNextRetryable returns the eligible task with the smallest
\* (priority rank, created_at), and of two eligible tasks of equal priority
\* the one that was created first (ids are handed out in creation order).
PriorityFifo ==
    [][Picks =>
          /\ Selectable(tasks, cur', now)
          /\ \A j \in Ids(tasks) \ {cur'} :
                Selectable(tasks, j, now) =>
                    \/ PriorityRank(tasks[cur'].priority) < PriorityRank(tasks[j].priority)
                    \/ /\ tasks[cur'].priority = tasks[j].priority
                       /\ tasks[cur'].created_at <= tasks[j].created_at
                       /\ cur' < j]_vars

DependencyDone(ts, i) == ts[i].depends_on = 0 \/ ts[ts[i].depends_on].status = "done"

\* C5: a task picked by getNextRetryable has no depends_on or a parent that
\* is done at that moment, whatever its priority and retry_after; and a
\* pending, due child of a done parent is eligible: the pick returns it or
\* a task the ORDER BY puts no later.
DependencyGating ==
    [][ProcessNext =>
          /\ pc' = "started" => DependencyDone(tasks, cur')
          /\ \A i \in Ids(tasks) :
                (/\ Running(tasks) = {}
                 /\ tasks[i].status = "pending"
                 /\ tasks[i].depends_on /= 0
                 /\ tasks[tasks[i].depends_on].status = "done"
                 /\ (tasks[i].retry_after = NULL \/ tasks[i].retry_after[1] <= now))
                    => /\ pc' = "started"
                       /\ cur' = i \/ OrderedBefore(tasks, cur', i)]_vars

\* C5 witness: a child has been picked after its parent was done.
DependencyGatingWitness ==
    /\ pc = "started"
    /\ tasks[cur].depends_on /= 0
    /\ tasks[tasks[cur].depends_on].status = "done"

Due(ts, i, t) == ts[i].retry_after = NULL \/ ts[i].retry_after[1] <= t

\* C6: a task that has been picked, and a task that is running, has no
\* retry_after in the future: a retry is not executed before its time.
RetryAfterRespected ==
    \A i \in Ids(tasks) :
        (tasks[i].status = "running" \/ (pc = "started" /\ cur = i)) => Due(tasks, i, now)

\* C6 witness: a task is executed again after its retry fell due, while
\* another pending task still waits for its retry_after.
RetryAfterRespectedWitness ==
    \E i, j \in Ids(tasks) :
        /\ tasks[i].status = "running" /\ tasks[i].retry_count > 0
        /\ tasks[j].status = "pending" /\ ~Due(tasks, j, now)

\* C7: retry_count never decreases and never exceeds max_retries.
RetryMonotone ==
    [][/\ \A i \in Ids(tasks) : tasks'[i].retry_count >= tasks[i].retry_count
       /\ \A i \in Ids(tasks') : tasks'[i].retry_count <= tasks'[i].max_retries]_vars

\* C7 witness: a task has used all its retries and failed once more.
RetryMonotoneWitness ==
    \E i \in Ids(tasks) :
        /\ tasks[i].retry_count = tasks[i].max_retries
        /\ failures[i] = tasks[i].max_retries + 1

PermanentClasses == {"context_exceeded", "agent_not_found"}

\* the step in which processNext decides on the retry of error m
Decides(m) ==
    \/ IterationThrows(m) /\ pc' = "notifying"
    \/ RecoveryReturns(FALSE) /\ caught = m

\* C10: at the retry decision an error classified context_exceeded or
\* agent_not_found fails the task with that error_type and changes nothing
\* but status, error, error_type and completed_at (so retry_count and
\* retry_after stay), even when retry_count < max_retries; an error of any
\* other class is retried while retry_count < max_retries.
PermanentFailure ==
    [][\A m \in ErrorMessages :
          Decides(m) =>
              IF detectErrorType(m) \in PermanentClasses
              THEN tasks' = [tasks EXCEPT ![cur].status = "failed",
                                          ![cur].error = <<detectErrorType(m), m>>,
                                          ![cur].error_type = detectErrorType(m),
                                          ![cur].completed_at = "datetime"]
              ELSE IF tasks[cur].retry_count < tasks[cur].max_retries
                   THEN /\ tasks'[cur].status = "pending"
                        /\ tasks'[cur].retry_count = tasks[cur].retry_count + 1
                   ELSE tasks'[cur].status = "failed"]_vars

\* C10 witness: a task failed for good with retries left.
PermanentFailureWitness ==
    \E i \in Ids(tasks) :
        /\ tasks[i].status = "failed"
        /\ tasks[i].error_type \in PermanentClasses
        /\ tasks[i].retry_count < tasks[i].max_retries

\* C8: scheduleRetry(id, delay) on a task with retry_count < max_retries
\* returns true, sets status pending, adds one to retry_count, sets
\* retry_after to now + delay and clears iteration, session_id, started_at
\* and error, changing nothing else; otherwise it returns false and the
\* table is unchanged.
ScheduleRetryContract ==
    [][\A id \in 1..MaxTasks, d \in Delays :
          CallScheduleRetry(id, d) =>
              IF id \in Ids(tasks) /\ tasks[id].retry_count < tasks[id].max_retries
              THEN /\ ret'.ret
                   /\ tasks' = [tasks EXCEPT
                                   ![id] = [tasks[id] EXCEPT
                                               !.status = "pending",
                                               !.retry_count = tasks[id].retry_count + 1,
                                               !.retry_after = <<now + d>>,
                                               !.iteration = 0,
                                               !.session_id = "NULL",
                                               !.started_at = "NULL",
                                               !.error = NULL]]
              ELSE ~ret'.ret /\ tasks' = tasks]_vars

\* C8 witness: scheduleRetry has granted a retry to a task and has then
\* refused the next one, the task running again with its retries used up.
ScheduleRetryContractWitness ==
    /\ ret.op = "scheduleRetry"
    /\ ~ret.ret
    /\ ret.id \in Ids(tasks)
    /\ tasks[ret.id].status = "running"
    /\ tasks[ret.id].retry_count = tasks[ret.id].max_retries
    /\ tasks[ret.id].retry_after /= NULL

\* the delays of the first, second, third and fourth retry
BackoffSeconds == <<30, 60, 120, 240>>

RecoveredStaysPending ==
    [][/\ \A m \in ErrorMessages :
             (IterationThrows(m) /\ detectErrorType(m) = "tool_result_missing")
                 => pc' = "recovering" /\ tasks' = tasks
       /\ RecoveryReturns(TRUE) =>
             /\ tasks'[cur].status = "pending"
             /\ tasks'[cur].retry_count = tasks[cur].retry_count]_vars

\* C12: when the Scheduler fails a task for good (setFailed after a
\* non-retryable error or after the retries are used up), every pending task
\* that depends on it becomes failed with error_type dependency_failed.
FailureCascades ==
    [][\A m \in ErrorMessages :
          (Decides(m) /\ tasks'[cur].status = "failed") =>
              \A i \in Ids(tasks) :
                  (tasks[i].status = "pending" /\ tasks[i].depends_on = cur)
                      => /\ tasks'[i].status = "failed"
                         /\ tasks'[i].error_type = "dependency_failed"]_vars

\* C13: the start that follows a crash, kill or forced exit resets the task
\* left running before anything is picked: when start reaches its loop no
\* task is running, and the orphan is pending with iteration 0 and with
\* session_id and started_at cleared, the rest of its row as it was.
OrphanRecovery ==
    [][Start =>
          /\ Running(tasks') = {}
          /\ \A i \in Ids(tasks) :
                tasks'[i] = IF tasks[i].status = "running"
                            THEN [tasks[i] EXCEPT !.status = "pending",
                                                  !.iteration = 0,
                                                  !.session_id = "NULL",
                                                  !.started_at = "NULL"]
                            ELSE tasks[i]]_vars

\* C13 witness: the daemon has restarted and reset an orphan, which now
\* waits as a pending task while nothing has been picked yet.
OrphanRecoveryWitness ==
    /\ pc = "loop"
    /\ cur = 0
    /\ ret.op = "resetToPending"
    /\ tasks[ret.id].status = "pending"
    /\ tasks[ret.id].iteration = 0
    /\ tasks[ret.id].retry_count > 0

-----------------------------------------------------------------------------
(* The single-instance lock (index.ts): daemon processes launched in any    *)
(* working directory, each step of acquireLock a system call of its own     *)

\* const DATA_DIR = process.env.SLEEPLESS_DATA_DIR || join(process.cwd(), "data")
DATA_DIR(cwd, env) == IF env = "unset" THEN cwd ELSE env

\* process.kill(pid, 0) does not throw
Live(pid) == pid \in 1..MaxProcs /\ proc[pid].pc \notin {"unborn", "exited"}

\* acquireLock returned false: process.exit(1)
Refused(p) == [proc[p] EXCEPT !.pc = "exited", !.refused = TRUE]

\* the process with the next pid is launched and acquireLock calls existsSync
Launch(p, cwd, env) ==
    /\ proc[p].pc = "unborn"
    /\ \A q \in 1..(p - 1) : proc[q].pc /= "unborn"
    /\ proc' = [proc EXCEPT ![p] = [pc |-> IF lockFile[cwd] /= 0 THEN "read" ELSE "write",
                                    cwd |-> cwd, data_dir |-> DATA_DIR(cwd, env),
                                    pid |-> 0, refused |-> FALSE]]
    /\ UNCHANGED <<lockFile, dataDir, engineVars>>

\* readFileSync(LOCK_FILE): a file unlinked since existsSync makes it throw
ReadLock(p) ==
    /\ proc[p].pc = "read"
    /\ proc' = [proc EXCEPT ![p] = IF lockFile[proc[p].cwd] = 0 THEN Refused(p)
                                   ELSE [proc[p] EXCEPT !.pc = "probe",
                                                        !.pid = lockFile[proc[p].cwd]]]
    /\ UNCHANGED <<lockFile, dataDir, engineVars>>

\* process.kill(pid, 0)
ProbeLock(p) ==
    /\ proc[p].pc = "probe"
    /\ proc' = [proc EXCEPT ![p] = IF Live(proc[p].pid) THEN Refused(p)
                                   ELSE [proc[p] EXCEPT !.pc = "write"]]
    /\ UNCHANGED <<lockFile, dataDir, engineVars>>

\* writeFileSync(LOCK_FILE, process.pid): throws when data/ does not exist
WriteLock(p) ==
    /\ proc[p].pc = "write"
    /\ IF dataDir[proc[p].cwd]
       THEN /\ lockFile' = [lockFile EXCEPT ![proc[p].cwd] = p]
            /\ proc' = [proc EXCEPT ![p].pc = "main"]
       ELSE /\ lockFile' = lockFile
            /\ proc' = [proc EXCEPT ![p] = Refused(p)]
    /\ UNCHANGED <<dataDir, engineVars>>

\* main after acquireLock: initDb creates DATA_DIR, then daemon.start
Main(p) ==
    /\ proc[p].pc = "main"
    /\ dataDir' = [dataDir EXCEPT ![proc[p].data_dir] = TRUE]
    /\ proc' = [proc EXCEPT ![p].pc = "scheduler"]
    /\ UNCHANGED <<lockFile, engineVars>>

\* gracefulShutdown / forceShutdown: releaseLock, process.exit
CleanExit(p) ==
    /\ proc[p].pc = "scheduler"
    /\ lockFile' = [lockFile EXCEPT ![proc[p].cwd] = 0]
    /\ proc' = [proc EXCEPT ![p].pc = "exited"]
    /\ UNCHANGED <<dataDir, engineVars>>

\* the process is killed or crashes: the lock file stays
Killed(p) ==
    /\ proc[p].pc \in {"main", "scheduler"}
    /\ proc' = [proc EXCEPT ![p].pc = "exited"]
    /\ UNCHANGED <<lockFile, dataDir, engineVars>>

\* a CLI command run in directory cwd calls initDb, which creates DATA_DIR
CliInitDb(cwd, env) ==
    /\ ~dataDir[DATA_DIR(cwd, env)]
    /\ dataDir' = [dataDir EXCEPT ![DATA_DIR(cwd, env)] = TRUE]
    /\ UNCHANGED <<lockFile, proc, engineVars>>

\* process.env.SLEEPLESS_DATA_DIR: not set, or the data directory of a Cwd
DataDirEnvs == {"unset"} \cup Cwds

NextLock ==
    \/ \E p \in 1..MaxProcs, cwd \in Cwds, env \in DataDirEnvs : Launch(p, cwd, env)
    \/ \E p \in 1..MaxProcs : ReadLock(p)
    \/ \E p \in 1..MaxProcs : ProbeLock(p)
    \/ \E p \in 1..MaxProcs : WriteLock(p)
    \/ \E p \in 1..MaxProcs : Main(p)
    \/ \E p \in 1..MaxProcs : CleanExit(p)
    \/ \E p \in 1..MaxProcs : Killed(p)
    \/ \E cwd \in Cwds, env \in DataDirEnvs : CliInitDb(cwd, env)

SpecLock == Init /\ [][NextLock]_vars

\* C14: whatever the interleaving of daemon start-ups, at most one daemon
\* process at a time runs a Scheduler against a given data directory.
SingleScheduler ==
    \A p, q \in 1..MaxProcs :
        (/\ p /= q
         /\ proc[p].pc = "scheduler"
         /\ proc[q].pc = "scheduler") => proc[p].data_dir /= proc[q].data_dir

\* the lock file of p's working directory names a live process
LockHeld(p) == lockFile[proc[p].cwd] /= 0 /\ Live(lockFile[proc[p].cwd])

\* C15: a start is refused if and only if the lock file exists and names a
\* live process; in every other case the process writes its own pid and
\* starts; and a clean exit removes the lock file.
LockContract ==
    [][\A p \in 1..MaxProcs :
          /\ (proc[p].pc \in {"read", "probe", "write"} /\ proc'[p].pc = "exited")
                 => LockHeld(p)
          /\ (proc[p].pc = "write" /\ LockHeld(p)) => proc'[p].pc /= "main"
          /\ proc'[p].pc = "main" => lockFile'[proc[p].cwd] = p
          /\ CleanExit(p) => lockFile'[proc[p].cwd] = 0]_vars

\* C16: after SIGINT or SIGTERM the Scheduler picks no new task; when the
\* shutdown ends before the timeout the task that was in flight has its
\* outcome persisted and its event emitted, so no task is left running; when
\* the timeout ends it the task is left running as it was, and the next
\* start resets it.
GracefulShutdownContract ==
    [][/\ shutdown /= "none" => ~Picks
       /\ GracefulStopReturns => Running(tasks) = {}
       /\ GracefulStopTimesOut => tasks' = tasks
       /\ Start => Running(tasks') = {}]_vars

\* a signal arrives while a graceful shutdown is in progress
SignalWhileStopping ==
    /\ shutdown \in {"graceful", "asked_again"}
    /\ GracefulShutdown \/ ForceShutdown

\* C17 as stated: any second signal received while a graceful shutdown is in
\* progress forces the shutdown: the daemon exits at once, not waiting for
\* the in-flight task.
SecondSignalForces ==
    [][SignalWhileStopping => pc' = "down" /\ tasks' = tasks]_vars

\* C17 amended: SIGQUIT, also while a graceful shutdown is in progress,
\* forces the shutdown: the daemon exits at once and the in-flight task is
\* left as it is; a further SIGINT or SIGTERM is ignored, the shutdown in
\* progress going on.
SigquitForces ==
    [][/\ ForceShutdown => pc' = "down" /\ tasks' = tasks
       /\ (GracefulShutdown /\ shutdown /= "none")
              => UNCHANGED <<tasks, pc, cur, caught>>]_vars

\* C17 witness: the daemon was forced down during a graceful shutdown while
\* a task was being executed, and the task is left running.
SigquitForcesWitness ==
    /\ pc = "down"
    /\ shutdown = "forced_while_stopping"
    /\ \E i \in Ids(tasks) : tasks[i].status = "running" /\ tasks[i].iteration > 0

-----------------------------------------------------------------------------
(* Ingress: validation.ts and the create paths of the four adapters, with   *)
(* TaskQueue.create called directly as the unit tests call it               *)

MAX_PROMPT_LENGTH == 10000

MAX_PROJECT_PATH_LENGTH == 500

\* prompt.trim()
trim(prompt) == Text(prompt.trimmed, prompt.trimmed)

validatePrompt(prompt) ==
    IF prompt.length = 0 THEN FALSE
    ELSE IF trim(prompt).length = 0 THEN FALSE
    ELSE IF trim(prompt).length > MAX_PROMPT_LENGTH THEN FALSE
    ELSE TRUE

dangerousPatterns == {"..", "^/etc", "^/root(?!/projects)", "^/var/log", "^/proc", "^/sys"}

validateProjectPath(path) ==
    IF path.length = 0 THEN TRUE
    ELSE IF path.length > MAX_PROJECT_PATH_LENGTH THEN FALSE
    ELSE IF path.patterns \cap dangerousPatterns /= {} THEN FALSE
    ELSE TRUE

\* get(id): the row, or nothing
get(ts, id) == IF id \in Ids(ts) THEN <<ts[id]>> ELSE <<>>

\* prompts: "", blanks, a sentence, the sentence in blanks, 10000 and 10001
\* characters
PromptInputs ==
    {Text(0, 0), Text(3, 0), Text(11, 11), Text(13, 11),
     Text(10000, 10000), Text(10001, 10001)}

PathInputs ==
    {NoPath,
     Path("/home/dev/app", 13, {}),
     Path("/home/dev/../../etc", 19, {".."}),
     Path("/etc/cron.d", 11, {"^/etc"}),
     Path("/root/.ssh", 10, {"^/root(?!/projects)"}),
     Path("/root/projects/app", 18, {}),
     Path("/home/dev/<a path of 501 characters>", 501, {})}

IngressPriorities == {"absent", "high"}

Rejected(adapter) == [op |-> adapter, id |-> 0, ret |-> FALSE]

Queued(adapter) == [op |-> adapter, id |-> Len(tasks) + 1, ret |-> TRUE]

\* Discord /task: handleTask
DiscordTask(prompt, project, priority) ==
    /\ Len(tasks) < MaxTasks
    /\ LET isDuplicate == \E i \in Ids(tasks) :
                              tasks[i].prompt = prompt /\ now - tasks[i].created_at < 30
       IN  IF ~validatePrompt(prompt) \/ ~validateProjectPath(project) \/ isDuplicate
           THEN tasks' = tasks /\ ret' = Rejected("discord")
           ELSE /\ tasks' = create(tasks,
                                   [prompt |-> prompt, project_path |-> project,
                                    priority |-> IF priority = "absent" THEN "medium"
                                                 ELSE priority,
                                    max_iterations |-> NULL, max_retries |-> NULL,
                                    created_by |-> "user", source |-> "discord",
                                    depends_on |-> 0], now)
                /\ ret' = Queued("discord")
    /\ UNCHANGED <<now, daemonVars, cancelTrue, failures, lockVars, sdkVars, notifier, elapsed, shutdown>>

\* Slack /task: the prompt is the trimmed text before " -p "
SlackTask(text, priority) ==
    /\ Len(tasks) < MaxTasks
    /\ LET prompt == trim(text)
       IN  IF prompt.length = 0 \/ ~validatePrompt(prompt)
           THEN tasks' = tasks /\ ret' = Rejected("slack")
           ELSE /\ tasks' = create(tasks,
                                   [prompt |-> prompt, project_path |-> NoPath,
                                    priority |-> IF priority \in {"high", "medium", "low"}
                                                 THEN priority ELSE "medium",
                                    max_iterations |-> NULL, max_retries |-> NULL,
                                    created_by |-> "user", source |-> "slack",
                                    depends_on |-> 0], now)
                /\ ret' = Queued("slack")
    /\ UNCHANGED <<now, daemonVars, cancelTrue, failures, lockVars, sdkVars, notifier, elapsed, shutdown>>

\* CLI `add <prompt> [-p level] [--project path]`
CliAdd(prompt, project, priority) ==
    /\ Len(tasks) < MaxTasks
    /\ tasks' = create(tasks,
                       [prompt |-> prompt, project_path |-> project,
                        priority |-> IF priority = "absent" THEN "medium" ELSE priority,
                        max_iterations |-> NULL, max_retries |-> NULL,
                        created_by |-> "undefined", source |-> "cli",
                        depends_on |-> 0], now)
    /\ ret' = Queued("cli")
    /\ UNCHANGED <<now, daemonVars, cancelTrue, failures, lockVars, sdkVars, notifier, elapsed, shutdown>>

\* tool server: sleepless_queue
McpQueue(prompt, project_path, priority) ==
    /\ Len(tasks) < MaxTasks
    /\ tasks' = create(tasks,
                       [prompt |-> prompt, project_path |-> project_path,
                        priority |-> IF priority = "absent" THEN "urgent" ELSE priority,
                        max_iterations |-> NULL, max_retries |-> NULL,
                        created_by |-> "undefined", source |-> "cli",
                        depends_on |-> 0], now)
    /\ ret' = Queued("mcp")
    /\ UNCHANGED <<now, daemonVars, cancelTrue, failures, lockVars, sdkVars, notifier, elapsed, shutdown>>

\* the fields the unit tests of create pass, with max_retries 0 and 2
CreateInputs(ts) ==
    [prompt : {APrompt, Text(10000, 10000)},
     project_path : {NoPath, Path("/test/path", 10, {})},
     created_by : {"undefined", "user123"}, source : {"cli", "discord"},
     priority : {"absent", "urgent"}, max_iterations : {NULL, <<5>>},
     max_retries : {NULL, <<0>>, <<2>>}, depends_on : 0..Len(ts)]

CallCreate(f) ==
    /\ Len(tasks) < MaxTasks
    /\ tasks' = create(tasks, f, now)
    /\ ret' = Queued("create")
    /\ UNCHANGED <<now, daemonVars, cancelTrue, failures, lockVars, sdkVars, notifier, elapsed, shutdown>>

NextIngress ==
    \/ Tick
    \/ \E p \in PromptInputs, q \in PathInputs, r \in IngressPriorities : DiscordTask(p, q, r)
    \/ \E p \in PromptInputs, r \in IngressPriorities : SlackTask(p, r)
    \/ \E p \in PromptInputs, q \in PathInputs, r \in IngressPriorities : CliAdd(p, q, r)
    \/ \E p \in PromptInputs, q \in PathInputs, r \in IngressPriorities : McpQueue(p, q, r)
    \/ \E f \in CreateInputs(tasks) : CallCreate(f)

SpecIngress == Init /\ [][NextIngress]_vars

\* C18: no task is stored with a prompt that is blank after trimming or
\* longer than 10000 characters, or with a project_path that fails the path
\* guard, whichever ingress path created it.
StoredInputsValid ==
    \A i \in Ids(tasks) :
        /\ tasks[i].prompt.trimmed > 0
        /\ tasks[i].prompt.length <= 10000
        /\ tasks[i].project_path.length <= 500
        /\ tasks[i].project_path.patterns = {}

\* C19: create round-trips its input: the row get returns has the prompt,
\* project_path, priority, max_iterations, max_retries (0 included),
\* created_by, source and depends_on that were supplied, the defaults medium,
\* 10 and 3 only where none was supplied, status pending, iteration 0 and
\* retry_count 0.
CreateRoundTrip ==
    [][\A f \in CreateInputs(tasks) :
          CallCreate(f) =>
              /\ get(tasks', ret'.id) /= <<>>
              /\ LET row == get(tasks', ret'.id)[1]
                 IN  /\ row.prompt = f.prompt
                     /\ row.project_path = IF f.project_path = NoPath THEN NullPath
                                           ELSE f.project_path
                     /\ row.priority = IF f.priority = "absent" THEN "medium"
                                       ELSE f.priority
                     /\ row.max_iterations = IF f.max_iterations = NULL THEN 10
                                             ELSE f.max_iterations[1]
                     /\ row.max_retries = IF f.max_retries = NULL THEN 3
                                          ELSE f.max_retries[1]
                     /\ row.created_by = IF f.created_by = "undefined" THEN "NULL"
                                         ELSE f.created_by
                     /\ row.source = f.source
                     /\ row.depends_on = f.depends_on
                     /\ row.status = "pending"
                     /\ row.iteration = 0
                     /\ row.retry_count = 0]_vars

-----------------------------------------------------------------------------
(* One task and the time its executions take, iteration by iteration *)

\* how long an iteration goes on between two looks at it, ms
IterationMs == {300000, 600000}

TimeoutCreates ==
    [prompt : {APrompt}, project_path : {NoPath}, created_by : {"undefined"}, source : {"cli"},
     priority : {"absent"}, max_iterations : {NULL, <<4>>},
     max_retries : {<<1>>}, depends_on : {0}]

NextTimeout ==
    \/ WaitForRetry
    \/ \E f \in TimeoutCreates : CreateFirst(f)
    \/ Start
    \/ ProcessNext
    \/ RunTaskWithLoop
    \/ \E d \in IterationMs : IterationRuns(d)
    \/ \E c, n \in BOOLEAN, s \in SessionIds : IterationReturns(c, n, s)
    \/ IterationTimesOut
    \/ \E m \in ErrorMessages : IterationThrows(m)
    \/ \E r \in BOOLEAN : RecoveryReturns(r)
    \/ Notified

SpecTimeout == Init /\ [][NextTimeout]_vars

\* C20: no execution of a task stays running longer than the task timeout
\* (taskTimeoutMs, 30 minutes by default): one that exceeds it is ended with
\* a timeout error and handed to the retry policy.
TaskTimeoutRespected == pc = "iterating" => elapsed.task <= taskTimeoutMs

-----------------------------------------------------------------------------
(* Notifier: the observers main() registers, and the notifications that     *)
(* processNext awaits                                                       *)

Channels == {"discord", "slack"}

\* WEBHOOK_EVENTS unset, or "completed"
WebhookConfigs == {"all_events", "completed_only"}

events(config) ==
    IF config = "completed_only" THEN {"completed"}
    ELSE {"started", "completed", "failed"}

\* what an observer does with a notification: it takes it, or its send throws
Outcomes == {"ok", "rejects"}

\* channel.send(notification): an async method, so a throw is a rejection
send(channel, type, outcome) ==
    [settled |-> IF outcome = "rejects" THEN "rejected" ELSE "fulfilled",
     delivered |-> outcome = "ok"]

\* WebhookNotifier.notify: returns at once for an event that is filtered out
webhookNotify(config, type, outcome) ==
    IF type \notin events(config) THEN [settled |-> "fulfilled", delivered |-> FALSE]
    ELSE [settled |-> IF outcome = "rejects" THEN "rejected" ELSE "fulfilled",
          delivered |-> outcome = "ok"]

\* mutant of catch: the rejection is passed on
catchRethrows(promise) == promise

\* promise.catch(err => console.error(...))
catch(promise) == [promise EXCEPT !.settled = "fulfilled"]

\* Promise.all rejects as soon as one of its promises rejects
PromiseAll(promises) ==
    IF \E i \in 1..Len(promises) : promises[i].settled = "rejected" THEN "rejected"
    ELSE "fulfilled"

\* Notifier.notify; outcome[i] is what observer i (channels first, then
\* webhooks) does with the notification
notify(n, type, outcome) ==
    LET channelPromises ==
            [i \in 1..Len(n.channels) |-> catch(send(n.channels[i], type, outcome[i]))]
        webhookPromises ==
            [j \in 1..Len(n.webhooks) |->
                catch(webhookNotify(n.webhooks[j], type, outcome[Len(n.channels) + j]))]
        all == channelPromises \o webhookPromises
    IN  [type      |-> type,
         invoked   |-> [i \in 1..Len(all) |-> 1],
         delivered |-> {i \in 1..Len(all) : all[i].delivered},
         settled   |-> PromiseAll(all)]

Observers(n) == n.channels \o n.webhooks

\* the `task` of an event: the row as the queue holds it when notify is called
TaskOfEvent(ts, id) == [id |-> id, status |-> ts[id].status]

OutcomeSeqs(n) == [1..Len(Observers(n)) -> Outcomes]

\* main: notifier.addChannel(discordBot), notifier.addChannel(slackBot)
AddChannel(channel) ==
    /\ pc = "down"
    /\ tasks = <<>>
    /\ \A i \in 1..Len(notifier.channels) : notifier.channels[i] /= channel
    /\ notifier' = [notifier EXCEPT !.channels = Append(@, channel)]
    /\ UNCHANGED <<tasks, now, daemonVars, cancelTrue, failures, ret, lockVars, sdkVars, elapsed, shutdown>>

\* main: notifier.addWebhook when WEBHOOK_URL is set
AddWebhook(config) ==
    /\ pc = "down"
    /\ tasks = <<>>
    /\ notifier.webhooks = <<>>
    /\ notifier' = [notifier EXCEPT !.webhooks = Append(@, config)]
    /\ UNCHANGED <<tasks, now, daemonVars, cancelTrue, failures, ret, lockVars, sdkVars, elapsed, shutdown>>

\* the errors an observer can throw, as the classifier sees them
ObserverErrors == {"iteration_timed_out", "exited_with_code_1"}

\* mutant of NotifyStarted: runTaskWithLoop begins before anything is emitted
NotifyStartedAfterRun(outcome) ==
    /\ pc = "started"
    /\ LoopHead(setRunning(tasks, cur, "loop"))
    /\ elapsed' = [task |-> 0, iteration |-> 0]
    /\ UNCHANGED <<now, cur, caught, failures, cancelTrue, ret, lockVars, sdkVars, notifier,
                   shutdown>>

\* processNext awaits notify({type: "started"}) inside its try block: when it
\* resolves runTaskWithLoop begins, when it rejects the catch block runs
NotifyStarted(outcome) ==
    /\ pc = "started"
    /\ LET n == notify(notifier, "started", outcome)
       IN  /\ notifier' = [notifier EXCEPT !.sent = n @@ TaskOfEvent(tasks, cur)]
           /\ IF n.settled = "fulfilled"
              THEN /\ LoopHead(setRunning(tasks, cur, "loop"))
                   /\ elapsed' = [task |-> 0, iteration |-> 0]
                   /\ UNCHANGED failures
                   /\ UNCHANGED caught
              ELSE /\ \E m \in ObserverErrors : RetryDecision(m) /\ caught' = m
                   /\ UNCHANGED elapsed
    /\ UNCHANGED <<now, cur, cancelTrue, ret, lockVars, sdkVars, shutdown>>

\* processNext awaits notify({type: "completed"}) in its try block, or
\* notify({type: "failed"}) in its catch block
NotifyOutcome(outcome) ==
    /\ pc = "notifying"
    /\ LET type == IF caught = "none" THEN "completed" ELSE "failed"
           n == notify(notifier, type, outcome)
       IN  /\ notifier' = [notifier EXCEPT !.sent = n @@ TaskOfEvent(tasks, cur)]
           /\ IF n.settled = "fulfilled" \/ type = "failed"
              THEN /\ pc' = "loop"
                   /\ cur' = 0
                   /\ caught' = "none"
                   /\ UNCHANGED <<tasks, failures>>
              ELSE /\ \E m \in ObserverErrors : RetryDecision(m) /\ caught' = m
                   /\ cur' = cur
    /\ UNCHANGED <<now, cancelTrue, ret, lockVars, sdkVars, elapsed, shutdown>>

NotifyCreates ==
    [prompt : {APrompt}, project_path : {NoPath}, created_by : {"undefined"}, source : {"cli"},
     priority : {"absent"}, max_iterations : MaxIterationsInputs,
     max_retries : {<<1>>}, depends_on : {0}]

NextNotify ==
    \/ \E c \in Channels : AddChannel(c)
    \/ \E w \in WebhookConfigs : AddWebhook(w)
    \/ \E f \in NotifyCreates : CreateFirst(f)
    \/ WaitForRetry
    \/ Start
    \/ ProcessNext
    \/ \E o \in OutcomeSeqs(notifier) : NotifyStarted(o)
    \/ \E c, n \in BOOLEAN, s \in SessionIds : IterationReturns(c, n, s)
    \/ \E m \in ErrorMessages : IterationThrows(m)
    \/ \E r \in BOOLEAN : RecoveryReturns(r)
    \/ \E o \in OutcomeSeqs(notifier) : NotifyOutcome(o)

SpecNotify == Init /\ [][NextNotify]_vars

\* the observers that take a notification of this type when each does what
\* outcome says
Takers(n, type, outcome) ==
    {i \in 1..Len(Observers(n)) :
        /\ outcome[i] = "ok"
        /\ i > Len(n.channels) => type \in events(n.webhooks[i - Len(n.channels)])}

\* C21: notify invokes every registered channel and webhook once and resolves
\* whatever subset of them fails; every observer that does not fail itself
\* gets the event, and the notification never makes the scheduler count the
\* execution as failed or change the outcome it has written.
NotifyContract ==
    [][\A o \in OutcomeSeqs(notifier) :
          (NotifyStarted(o) \/ NotifyOutcome(o)) =>
              /\ notifier'.sent.settled = "fulfilled"
              /\ Len(notifier'.sent.invoked) = Len(Observers(notifier))
              /\ \A i \in 1..Len(Observers(notifier)) : notifier'.sent.invoked[i] = 1
              /\ notifier'.sent.delivered = Takers(notifier, notifier'.sent.type, o)
              /\ failures' = failures
              /\ \A i \in Ids(tasks) :
                    \/ tasks'[i].status = tasks[i].status
                    \/ tasks[i].status = "pending" /\ tasks'[i].status \in {"running", "done"}]_vars

\* a completed notification that one observer failed to take and another took
NotifyContractWitness ==
    /\ notifier.sent.type = "completed"
    /\ notifier.sent.delivered /= {}
    /\ \E i \in 1..Len(Observers(notifier)) :
          i <= Len(notifier.channels) /\ i \notin notifier.sent.delivered
    /\ pc = "loop"
    /\ \E i \in Ids(tasks) : tasks[i].status = "done"

-----------------------------------------------------------------------------
(* A parent, its children and an unrelated task: the dependency methods of  *)
(* TaskQueue called in any order                                            *)

MaxFamily == 4

FamilyCreates(ts) ==
    [prompt : {APrompt}, project_path : {NoPath}, created_by : {"undefined"}, source : {"cli"},
     priority : {"absent"}, max_iterations : {NULL}, max_retries : {NULL},
     depends_on : 0..Min(Len(ts), 2)]

CreateInFamily(f) ==
    /\ Len(tasks) < MaxFamily
    /\ tasks' = create(tasks, f, now)
    /\ ret' = NoCall
    /\ UNCHANGED <<now, queueVars, lockVars, sdkVars, notifier, elapsed, shutdown>>

Reasons == {"Parent failed"}

CallFailDependentTasks(taskId, reason) ==
    /\ tasks' = failDependentTasks(tasks, taskId, reason)
    /\ ret' = [op |-> "failDependentTasks", id |-> taskId,
               ret |-> getDependentTasks(tasks, taskId) /= {}]
    /\ UNCHANGED <<now, queueVars, lockVars, sdkVars, notifier, elapsed, shutdown>>

NextFamily ==
    \/ \E f \in FamilyCreates(tasks) : CreateInFamily(f)
    \/ \E id \in 1..MaxFamily : CallSetRunning(id)
    \/ \E id \in 1..MaxFamily : CallCancel(id)
    \/ \E id \in 1..MaxFamily, r \in Reasons : CallFailDependentTasks(id, r)

SpecFamily == Init /\ [][NextFamily]_vars

\* C22: failDependentTasks(parent, reason) makes every pending task whose
\* depends_on is parent failed, with error = reason and error_type =
\* dependency_failed, and leaves every other row as it was: children that
\* are not pending, tasks with another parent or none, the parent itself.
FailDependentsContract ==
    [][\A taskId \in 1..MaxFamily, r \in Reasons :
          CallFailDependentTasks(taskId, r) =>
              /\ Len(tasks') = Len(tasks)
              /\ \A i \in Ids(tasks) :
                    IF tasks[i].depends_on = taskId /\ tasks[i].status = "pending"
                    THEN /\ tasks'[i].status = "failed"
                         /\ tasks'[i].error = <<r>>
                         /\ tasks'[i].error_type = "dependency_failed"
                         /\ tasks'[i].depends_on = taskId
                    ELSE tasks'[i] = tasks[i]]_vars

\* two pending children have been failed, a child that was already running
\* and an unrelated task have not
FailDependentsContractWitness ==
    /\ ret.op = "failDependentTasks"
    /\ Cardinality({i \in Ids(tasks) : tasks[i].depends_on = ret.id
                                        /\ tasks[i].error_type = "dependency_failed"}) = 2
    /\ \E i \in Ids(tasks) : tasks[i].depends_on = ret.id /\ tasks[i].status = "running"
    /\ tasks[ret.id].status = "pending"

-----------------------------------------------------------------------------
(* One task with many retries: the backoff up to its cap *)

MaxBackoffRetries == 7

BackoffCreates ==
    [prompt : {APrompt}, project_path : {NoPath}, created_by : {"undefined"}, source : {"cli"},
     priority : {"absent"}, max_iterations : MaxIterationsInputs,
     max_retries : {<<MaxBackoffRetries>>}, depends_on : {0}]

NextBackoff ==
    \/ WaitForRetry
    \/ \E f \in BackoffCreates : CreateFirst(f)
    \/ Start
    \/ ProcessNext
    \/ RunTaskWithLoop
    \/ \E c, n \in BOOLEAN, s \in SessionIds : IterationReturns(c, n, s)
    \/ \E m \in ErrorMessages : IterationThrows(m)
    \/ \E r \in BOOLEAN : RecoveryReturns(r)
    \/ Notified

SpecBackoff == Init /\ [][NextBackoff]_vars

\* the delays of the retries with retry_count 0, 1, 2, 3 and 4, in seconds
DelaySeconds == <<30, 60, 120, 240, 480>>

-----------------------------------------------------------------------------
(* One task whose iterations throw errors of every kind: the classifier *)

ClassifyCreates ==
    [prompt : {APrompt}, project_path : {NoPath}, created_by : {"undefined"}, source : {"cli"},
     priority : {"absent"}, max_iterations : MaxIterationsInputs,
     max_retries : {<<1>>, <<2>>}, depends_on : {0}]

NextClassify ==
    \/ WaitForRetry
    \/ \E f \in ClassifyCreates : CreateFirst(f)
    \/ Start
    \/ ProcessNext
    \/ RunTaskWithLoop
    \/ \E c, n \in BOOLEAN, s \in SessionIds : IterationReturns(c, n, s)
    \/ \E m \in ClassifierMessages : IterationThrows(m)
    \/ \E r \in BOOLEAN : RecoveryReturns(r)
    \/ Notified

SpecClassify == Init /\ [][NextClassify]_vars

\* the classes in the order their rules are tried
ClassOrder ==
    <<"rate_limit", "context_exceeded", "agent_not_found", "tool_result_missing",
      "thinking_block_error", "timeout">>

\* the substrings of a message satisfy the rule of a class
Satisfies(substrings, class) ==
    CASE class = "rate_limit" -> {"rate", "limit"} \subseteq substrings
      [] class = "context_exceeded" ->
            "context" \in substrings /\ substrings \cap {"length", "window", "exceeded"} /= {}
      [] class = "agent_not_found" ->
            "agent" \in substrings /\ substrings \cap {"not found", "undefined"} /= {}
      [] class = "tool_result_missing" -> {"tool_use", "tool_result"} \subseteq substrings
      [] class = "thinking_block_error" ->
            "thinking" \in substrings /\ substrings \cap {"block", "disabled"} /= {}
      [] class = "timeout" -> substrings \cap {"timeout", "timed out"} /= {}

\* the earliest class in the order whose rule the message satisfies
FirstMatch(message) ==
    LET substrings == (ErrorSubstrings @@ MixedSubstrings)[message]
        matching == {k \in 1..Len(ClassOrder) : Satisfies(substrings, ClassOrder[k])}
    IN  IF matching = {} THEN "unknown"
        ELSE ClassOrder[CHOOSE k \in matching : \A j \in matching : k <= j]

\* C24: every error gets exactly one class, the first in the order rate_limit,
\* context_exceeded, agent_not_found, tool_result_missing,
\* thinking_block_error, timeout whose rule its message satisfies, unknown
\* when none does: the daemon recovers, retries or fails the task by that
\* class and records it when the task fails.
FirstMatchClassifies ==
    [][\A m \in ClassifierMessages :
          IterationThrows(m) =>
              /\ detectErrorType(m) = FirstMatch(m)
              /\ IF FirstMatch(m) = "tool_result_missing" /\ tasks[cur].session_id /= "NULL"
                 THEN pc' = "recovering" /\ tasks' = tasks
                 ELSE IF FirstMatch(m) \in PermanentClasses
                         \/ tasks[cur].retry_count >= tasks[cur].max_retries
                 THEN /\ tasks'[cur].status = "failed"
                      /\ tasks'[cur].error_type = FirstMatch(m)
                      /\ tasks'[cur].error = <<FirstMatch(m), m>>
                 ELSE /\ tasks'[cur].status = "pending"
                      /\ tasks'[cur].retry_count = tasks[cur].retry_count + 1]_vars

\* a message that names a rate limit and a timeout has failed the task, after
\* its retry, as rate_limit
FirstMatchClassifiesWitness ==
    \E i \in Ids(tasks) :
        /\ tasks[i].status = "failed"
        /\ tasks[i].error = <<"rate_limit", "rate_limit_timeout">>
        /\ tasks[i].error_type = "rate_limit"
        /\ tasks[i].retry_count = 1

\* C25: in every reachable state the persisted iteration of every task is at
\* most its max_iterations, also after an execution that hit the cap.
IterationBounded ==
    \A i \in Ids(tasks) : tasks[i].iteration <= tasks[i].max_iterations

\* C26: in one execution the runner is prompted at most max_iterations times
\* (the iteration under way is number 1..max_iterations, counted from 1);
\* when the iterations keep returning not complete with needsContinuation,
\* the execution goes on to the next iteration until max_iterations have
\* run, and then ends with the max-iterations result and the task done, not
\* failed and not retried.
MaxIterationsCap ==
    [][/\ RunTaskWithLoop => tasks'[cur].iteration = 1 /\ pc' = "iterating"
       /\ pc' = "iterating" => tasks'[cur'].iteration \in 1..tasks'[cur'].max_iterations
       /\ \A s \in SessionIds :
             IterationReturns(FALSE, TRUE, s) =>
                 IF tasks[cur].iteration < tasks[cur].max_iterations
                 THEN /\ pc' = "iterating"
                      /\ tasks'[cur].iteration = tasks[cur].iteration + 1
                      /\ tasks'[cur].status = tasks[cur].status
                 ELSE /\ tasks[cur].iteration = tasks[cur].max_iterations
                      /\ pc' = "notifying"
                      /\ tasks'[cur].status = "done"
                      /\ tasks'[cur].result = "max_iterations_reached"
                      /\ tasks'[cur].retry_count = tasks[cur].retry_count
                      /\ failures' = failures]_vars

\* a task with max_iterations 4 is done with the max-iterations result
MaxIterationsCapWitness ==
    \E i \in Ids(tasks) :
        /\ tasks[i].max_iterations = 4
        /\ tasks[i].status = "done"
        /\ tasks[i].result = "max_iterations_reached"
        /\ tasks[i].retry_count = 0

\* C27: in every execution of a task (one pick by the scheduler) the
\* scheduler writes the outcome exactly once: the execution ends only after
\* one of setDone, setFailed or a successful scheduleRetry has been applied
\* to the task, and nothing is written after it.
OutcomeWrittenOnce ==
    [][/\ pc \in {"started", "iterating", "recovering"} => pc' /= "loop"
       /\ (pc \in {"started", "iterating", "recovering"} /\ pc' = "notifying") =>
              \/ tasks'[cur].status = "done" /\ tasks[cur].status = "running"
              \/ tasks'[cur].status = "failed" /\ tasks[cur].status = "running"
              \/ /\ tasks'[cur].status = "pending"
                 /\ tasks[cur].status = "running"
                 /\ tasks'[cur].retry_count = tasks[cur].retry_count + 1
       /\ Notified => tasks' = tasks]_vars

-----------------------------------------------------------------------------
(* The iterations of one task: runSdkIteration's poll loop against the      *)
(* runner's session, and runCliIteration when there is no client            *)

MIN_STABILITY_TIME_MS == 10000

MIN_IDLE_TIME_MS == 5000

STABLE_POLLS_REQUIRED == 3

MaxMessages == 3

MaxStablePolls == 4

\* a message by its role and the one part it has
MessageKinds ==
    {[role |-> "user", part |-> "text"],
     [role |-> "assistant", part |-> "blank_text"],
     [role |-> "assistant", part |-> "text"]}

\* an assistant message whose part is a tool call
ToolMessage == [role |-> "assistant", part |-> "tool"]

\* the messages that arrive between two looks at the session: none or one
Arrivals(messages) ==
    {<<>>} \cup (IF Len(messages) < MaxMessages THEN {<<m>> : m \in MessageKinds} ELSE {})

TodoLists == {<<>>, <<"completed", "cancelled">>, <<"completed", "in_progress">>}

\* the request of the poll that throws, if any
ApiFailures == {"none", "messages", "todo"}

\* An output is a sequence of lines.  The lines the model writes, as written,
\* each with the phrases of the daemon's tables that occur in its lower-case
\* form ("incomplete" holds "complete"; "Task completed." holds
\* "task complete", "task completed" and "complete").
Phrases ==
    [x \in {"hello"} |-> {}] @@
    "task completed (no output captured)" :> {"task complete", "task completed", "complete"} @@
    "[task_complete]"     :> {"[task_complete]", "complete"} @@
    "todos completed: 3"  :> {"todos completed:", "todos completed: ", "complete"} @@
    "task completed."     :> {"task complete", "task completed", "complete"} @@
    "all done"            :> {"all done"} @@
    "incomplete"          :> {"complete"} @@
    "next i will"         :> {"next i", "i will"} @@
    "let me"              :> {"let me"} @@
    "then, "              :> {"then,"} @@
    "waiting for"         :> {"waiting for"}

\* String.prototype.toLowerCase on the lines and signals that have capitals
UpperCased ==
    "[TASK_COMPLETE]"     :> "[task_complete]" @@
    "Task completed (no output captured)" :> "task completed (no output captured)" @@
    "Task completed."     :> "task completed." @@
    "Next I will"         :> "next i will"

toLowerCase(text) == IF text \in DOMAIN UpperCased THEN UpperCased[text] ELSE text

\* what extractOutputFromMessages and parseOpenCodeOutput return for no text
NoOutputCaptured == "Task completed (no output captured)"

\* the lines an agent writes
Lines == (DOMAIN Phrases \cup DOMAIN UpperCased)
             \ {NoOutputCaptured, toLowerCase(NoOutputCaptured), "[task_complete]",
                "next i will"}

\* the text parts of the assistant's messages, in order
extractOutputFromMessages(messages) ==
    LET texts == SelectSeq(messages, LAMBDA m : m.role = "assistant" /\ m.part = "text")
    IN  IF texts = <<>> THEN <<NoOutputCaptured>>
        ELSE [i \in 1..Len(texts) |-> texts[i].text]

\* line.includes(phrase), case-sensitive as in JavaScript
lineIncludes(line, phrase) == line \in DOMAIN Phrases /\ phrase \in Phrases[line]

\* output.includes(phrase) and output.lastIndexOf(phrase): 0 stands for -1
outputIncludes(output, phrase) == \E i \in 1..Len(output) : lineIncludes(output[i], phrase)

lastIndexOf(output, phrase) ==
    IF outputIncludes(output, phrase)
    THEN CHOOSE i \in 1..Len(output) :
            /\ lineIncludes(output[i], phrase)
            /\ \A j \in (i + 1)..Len(output) : ~lineIncludes(output[j], phrase)
    ELSE 0

lowerOutput(output) == [i \in 1..Len(output) |-> toLowerCase(output[i])]

COMPLETION_SIGNALS ==
    {"[TASK_COMPLETE]", "[task_complete]", "task complete", "task completed",
     "successfully completed", "all done", "finished successfully", "completed successfully",
     "nothing left to do", "all steps completed", "all todos completed", "todos completed: "}

STRONG_COMPLETION_SIGNALS ==
    {"[TASK_COMPLETE]", "[task_complete]", "todos completed:", "all todos completed"}

\* the planningPhrases of detectCompletion
planningPhrasesAfter == {"i will", "i'll", "let me", "next i", "then i"}

\* mutant of detectCompletion: the output is compared as written
detectCompletionCaseSensitive(output) ==
    \/ \E signal \in STRONG_COMPLETION_SIGNALS : outputIncludes(output, signal)
    \/ /\ \E signal \in COMPLETION_SIGNALS : outputIncludes(output, signal)
       /\ ~\E p \in planningPhrasesAfter :
              /\ lastIndexOf(output, p) > lastIndexOf(output, "complete")
              /\ lastIndexOf(output, "complete") > 0

detectCompletion(output) ==
    LET lower == lowerOutput(output)
        hasStrongSignal ==
            \E signal \in STRONG_COMPLETION_SIGNALS : outputIncludes(lower, toLowerCase(signal))
        hasWeakSignal ==
            \E signal \in COMPLETION_SIGNALS : outputIncludes(lower, toLowerCase(signal))
        hasPlanningAfterCompletion ==
            \E p \in planningPhrasesAfter :
                LET completionIdx == lastIndexOf(lower, "complete")
                    planningIdx == lastIndexOf(lower, p)
                IN  planningIdx > completionIdx /\ completionIdx > 0
    IN  IF hasStrongSignal THEN TRUE
        ELSE IF ~hasWeakSignal THEN FALSE
        ELSE ~hasPlanningAfterCompletion

stoppingPhrases ==
    {"waiting for", "need more information", "please provide", "could you clarify",
     "what would you like", "should i proceed"}

\* the planningPhrases of detectContinuationNeeded
planningPhrases ==
    {"i will", "i'll", "let me", "first,", "next,", "then,", "step 1", "step 2",
     "here's my plan", "i need to", "working on", "processing", "executing", "creating",
     "todo", "in_progress", "pending"}

\* mutant of continuationNeeded: work under way outweighs a stopping phrase
continuationNeededWorkFirst(output, hasToolCalls) ==
    IF detectCompletion(output) THEN FALSE
    ELSE hasToolCalls \/ \E p \in planningPhrases : outputIncludes(lowerOutput(output), p)

\* the body detectContinuationNeeded and detectContinuationNeededFromMessages
\* share, hasToolCalls being found in the raw output or in the messages
continuationNeeded(output, hasToolCalls) ==
    LET lower == lowerOutput(output)
        needsInput == \E p \in stoppingPhrases : outputIncludes(lower, p)
        hasPlanningLanguage == \E p \in planningPhrases : outputIncludes(lower, p)
    IN  IF detectCompletion(output) THEN FALSE
        ELSE IF needsInput THEN FALSE
        ELSE hasToolCalls \/ hasPlanningLanguage

\* rawOutput: the types of the events the process wrote
detectContinuationNeeded(output, rawOutput) ==
    continuationNeeded(output, "tool_call" \in rawOutput \/ "tool_result" \in rawOutput)

detectContinuationNeededFromMessages(messages, output) ==
    continuationNeeded(output, \E i \in 1..Len(messages) : messages[i].part = "tool")

\* the outputs of the iterations of a session: a completion signal, work
\* under way, a question to the user
Signals == {<<"[TASK_COMPLETE]">>, <<"let me">>, <<"waiting for">>}

validateSessionHasOutput(messages, throws) ==
    IF throws THEN TRUE
    ELSE \E i \in 1..Len(messages) :
            /\ messages[i].role \in {"assistant", "tool"}
            /\ messages[i].part \in {"text", "reasoning", "tool", "tool_result"}

hasIncompleteTodos(todos, throws) ==
    IF throws THEN FALSE
    ELSE \E i \in 1..Len(todos) : todos[i] /= "completed" /\ todos[i] /= "cancelled"

\* the iteration that runTaskWithLoop is awaiting: task, retry_count, iteration
Awaited == <<cur, tasks[cur].retry_count, tasks[cur].iteration>>

\* the first iteration of an execution has no session yet
FirstIteration == tasks[cur].iteration = 1

\* the sessionId runTaskWithLoop hands to the iteration: null (0) on the first
\* iteration, then result.sessionId of the iteration before
SessionArg == IF FirstIteration THEN 0 ELSE sdk.sessionId

\* the sessions this execution has created before the iteration
SessionsCreated == IF FirstIteration THEN 0 ELSE sdk.created

\* runSdkIteration up to its poll loop: the session is created if there is
\* none, the prompt is sent, the TaskState is found or made
SendPrompt ==
    /\ pc = "iterating"
    /\ sdk.of /= Awaited
    /\ session' = IF FirstIteration THEN NoSession ELSE session
    /\ sdk' = [pc |-> "polling", of |-> Awaited,
               state |-> IF FirstIteration THEN NewTaskState ELSE sdk.state,
               expired |-> FALSE, streak |-> 0, via |-> "none", result |-> NoResult,
               sessionId |-> IF SessionArg = 0 THEN SessionsCreated + 1 ELSE SessionArg,
               created |-> IF SessionArg = 0 THEN SessionsCreated + 1 ELSE SessionsCreated]
    /\ UNCHANGED <<tasks, now, daemonVars, cancelTrue, failures, ret, lockVars, notifier,
                   elapsed, shutdown>>

\* the results the branches of the poll loop return
NeedsContinuation == [isComplete |-> FALSE, needsContinuation |-> TRUE]

IdleResult(messages, output) ==
    LET isComplete == detectCompletion(output)
        needsContinuation == detectContinuationNeededFromMessages(messages, output)
    IN  [isComplete |-> isComplete \/ ~needsContinuation,
         needsContinuation |-> ~isComplete /\ needsContinuation]

StableResult == [isComplete |-> TRUE, needsContinuation |-> FALSE]

\* one round of `while (Date.now() - iterationStartTime < timeoutMs)`: the
\* sleep of 2 s, then the session as the runner reports it (status, the
\* messages with what has arrived, todos); late: the deadline has passed
\* when the round ends
Poll(status, arrival, todos, late, fails, signal) ==
    /\ sdk.pc = "polling"
    /\ LET messages == session.messages \o arrival
           elapsedMs == IF late THEN MIN_STABILITY_TIME_MS
                        ELSE Min(sdk.state.elapsedMs + 2000, MIN_STABILITY_TIME_MS)
           clocked == [sdk EXCEPT !.state.elapsedMs = elapsedMs, !.expired = late,
                                  !.streak = IF status = "busy" /\ arrival = <<>>
                                             THEN Min(@ + 1, STABLE_POLLS_REQUIRED) ELSE 0]
           hasValidOutput == validateSessionHasOutput(messages, fails = "messages")
           incompleteTodos == hasIncompleteTodos(todos, fails = "todo")
           return(result, via) == [clocked EXCEPT !.pc = "returned", !.result = result,
                                                  !.via = via]
           stable == [clocked EXCEPT !.state.stablePolls = @ + 1]
       IN  IF sdk.expired
           THEN /\ sdk' = [sdk EXCEPT !.pc = "thrown"]
                /\ session' = session
           ELSE /\ session' = [status |-> status, messages |-> messages, todos |-> todos]
                /\ IF status = "idle"
                   THEN sdk' = IF elapsedMs < MIN_IDLE_TIME_MS THEN clocked
                               ELSE IF ~hasValidOutput THEN clocked
                               ELSE IF incompleteTodos THEN return(NeedsContinuation, "idle")
                               ELSE return(IdleResult(messages, signal), "idle")
                   ELSE IF elapsedMs >= MIN_STABILITY_TIME_MS
                   THEN IF Len(messages) = sdk.state.lastMessageCount
                        THEN /\ sdk.state.stablePolls < MaxStablePolls
                             /\ sdk' = IF stable.state.stablePolls < STABLE_POLLS_REQUIRED
                                       THEN stable
                                       ELSE IF ~hasValidOutput THEN stable
                                       ELSE IF incompleteTodos
                                       THEN [return(NeedsContinuation, "stable")
                                                EXCEPT !.state.stablePolls = @ + 1]
                                       ELSE [return(StableResult, "stable")
                                                EXCEPT !.state.stablePolls = @ + 1]
                        ELSE sdk' = [clocked EXCEPT !.state.stablePolls = 0,
                                                    !.state.lastMessageCount = Len(messages)]
                   ELSE sdk' = [clocked EXCEPT !.state.lastMessageCount = Len(messages)]
    /\ UNCHANGED <<tasks, now, daemonVars, cancelTrue, failures, ret, lockVars, notifier,
                   elapsed, shutdown>>

\* runCliIteration: the child process closes, killed by the timer (late) or
\* by itself; the result is read off its output alone. Without --session the
\* process opens a session of its own; captured: a line of a stdout chunk
\* parsed as JSON with session.id
CliIterationCloses(arrival, todos, late, signal, rawOutput, captured) ==
    /\ pc = "iterating"
    /\ sdk.of /= Awaited
    /\ session' = [status |-> "idle",
                   messages |-> (IF FirstIteration THEN <<>> ELSE session.messages) \o arrival,
                   todos |-> todos]
    /\ sdk' = [pc |-> IF late THEN "thrown" ELSE "returned", of |-> Awaited,
               state |-> IF FirstIteration THEN NewTaskState ELSE sdk.state,
               expired |-> late, streak |-> 0, via |-> "cli",
               sessionId |-> IF SessionArg /= 0 THEN SessionArg
                             ELSE IF captured THEN SessionsCreated + 1 ELSE 0,
               created |-> IF SessionArg = 0 THEN SessionsCreated + 1 ELSE SessionsCreated,
               result |-> IF late THEN NoResult
                          ELSE [isComplete |-> detectCompletion(signal),
                                needsContinuation |->
                                    ~detectCompletion(signal)
                                    /\ detectContinuationNeeded(signal, rawOutput)]]
    /\ UNCHANGED <<tasks, now, daemonVars, cancelTrue, failures, ret, lockVars, notifier,
                   elapsed, shutdown>>

\* runTaskWithLoop gets the result of the iteration it awaits
IterationResolves ==
    /\ pc = "iterating"
    /\ sdk.pc = "returned"
    /\ sdk.of = Awaited
    /\ IterationReturns(sdk.result.isComplete, sdk.result.needsContinuation,
                        IF sdk.sessionId = 0 THEN "NULL" ELSE "ses")

\* the iteration it awaits has timed out
IterationRejects ==
    /\ pc = "iterating"
    /\ sdk.pc = "thrown"
    /\ sdk.of = Awaited
    /\ IterationThrows("iteration_timed_out")

SdkCreates ==
    [prompt : {APrompt}, project_path : {NoPath}, created_by : {"undefined"}, source : {"cli"},
     priority : {"absent"}, max_iterations : {<<2>>},
     max_retries : {<<1>>}, depends_on : {0}]

NextSdk ==
    \/ \E f \in SdkCreates : CreateFirst(f)
    \/ WaitForRetry
    \/ Start
    \/ ProcessNext
    \/ RunTaskWithLoop
    \/ SendPrompt
    \/ \E status \in {"idle", "busy"}, arrival \in Arrivals(session.messages),
          todos \in TodoLists, late \in BOOLEAN, fails \in ApiFailures, signal \in Signals :
          Poll(status, arrival, todos, late, fails, signal)
    \/ \E arrival \in Arrivals(session.messages), todos \in TodoLists, late \in BOOLEAN,
          signal \in Signals, captured \in BOOLEAN :
          CliIterationCloses(arrival, todos, late, signal, {"text"}, captured)
    \/ IterationResolves
    \/ IterationRejects
    \/ Notified

SpecSdk == Init /\ [][NextSdk]_vars

\* C28: an iteration never returns isComplete = true while the session's todo
\* list holds a todo that is neither completed nor cancelled: it returns
\* isComplete = false and needsContinuation = true, so that iteration does
\* not make the task done.
TodosGateCompletion ==
    (/\ sdk.pc = "returned"
     /\ \E i \in 1..Len(session.todos) : session.todos[i] \notin {"completed", "cancelled"})
        => ~sdk.result.isComplete /\ sdk.result.needsContinuation

\* C29: no iteration ends with a result unless the session holds a message of
\* the assistant or a tool with a non-empty text or reasoning part or a tool
\* or tool_result part; without one the executor polls on until the
\* iteration deadline.
OutputGatesReturn ==
    sdk.pc = "returned" =>
        \E i \in 1..Len(session.messages) :
            /\ session.messages[i].role \in {"assistant", "tool"}
            /\ session.messages[i].part \in {"text", "reasoning", "tool", "tool_result"}

\* C30: a busy session is taken as idle only after three consecutive polls of
\* the current iteration in which the runner reported busy with the message
\* count of the poll before, and only when 10 s have passed since the session
\* was created; a poll that finds the runner busy with another message count
\* puts the count of stable polls back to 0.
StabilityHeuristic ==
    [][(sdk.pc = "polling" /\ ~sdk.expired /\ sdk' /= sdk) =>
          /\ (sdk'.pc = "returned" /\ sdk'.via = "stable") =>
                 /\ sdk'.streak >= 3
                 /\ sdk'.state.elapsedMs >= 10000
          /\ (session'.status = "busy" /\ Len(session'.messages) /= Len(session.messages)) =>
                 sdk'.state.stablePolls = 0]_vars

\* ---------------------------------------------------------------------
\* C31: all iterations of one execution share one session: the execution
\* creates a session at most once, and an iteration after the first sends its
\* prompt to the session the first one made.
SingleSession ==
    sdk.pc /= "none" => /\ sdk.created <= 1
                        /\ (sdk.of[3] > 1 => sdk.sessionId = 1)

\* ---------------------------------------------------------------------
\* C32: the events of an execution are ordered: when the first runner call
\* of an execution begins, `started` has been emitted for that task;
\* `completed` is emitted with the row already done, `failed` with the row
\* already failed or pending again with its retry_after, and the event shows
\* the row as persisted.
EventsOrdered ==
    [][/\ (pc /= "iterating" /\ pc' = "iterating") =>
              /\ notifier'.sent.type = "started"
              /\ notifier'.sent.id = cur'
       /\ \A o \in OutcomeSeqs(notifier) : NotifyOutcome(o) =>
              /\ notifier'.sent.id = cur
              /\ notifier'.sent.status = tasks[cur].status
              /\ notifier'.sent.type \in {"completed", "failed"}
              /\ notifier'.sent.type = "completed" =>
                     /\ tasks[cur].status = "done"
                     /\ tasks[cur].completed_at /= "NULL"
              /\ notifier'.sent.type = "failed" =>
                     \/ tasks[cur].status = "failed" /\ tasks[cur].completed_at /= "NULL"
                     \/ tasks[cur].status = "pending" /\ tasks[cur].retry_after /= NULL]_vars

\* a failed event that shows the task pending again for its retry, emitted
\* after the started event of the same execution
EventsOrderedWitness ==
    /\ notifier.sent.type = "failed"
    /\ notifier.sent.status = "pending"
    /\ notifier.sent.delivered /= {}
    /\ pc = "loop"
    /\ \E i \in Ids(tasks) : i = notifier.sent.id /\ tasks[i].retry_count = 1

-----------------------------------------------------------------------------
(* Tasks that name a parent: create takes whatever depends_on it is given,  *)
(* the id of an earlier task, its own id to be, or an id no task has        *)

DependsCreates(ts) ==
    [prompt : {APrompt}, project_path : {NoPath}, created_by : {"undefined"}, source : {"cli"},
     priority : {"absent"}, max_iterations : {<<1>>},
     max_retries : {<<1>>}, depends_on : 0..(Len(ts) + 2)]

NextDepends ==
    \/ WaitForRetry
    \/ \E f \in DependsCreates(tasks) : Create(f)
    \/ \E id \in Ids(tasks) : Cancel(id)
    \/ Start
    \/ ProcessNext
    \/ RunTaskWithLoop
    \/ \E c, n \in BOOLEAN, s \in SessionIds : IterationReturns(c, n, s)
    \/ \E m \in {"exited_with_code_1", "agent_not_found"} : IterationThrows(m)
    \/ Notified

SpecDepends == Init /\ [][NextDepends]_vars

\* C33: every stored task whose depends_on is set names the id of an
\* existing task.
DependsOnExists ==
    \A i \in Ids(tasks) : tasks[i].depends_on /= 0 => tasks[i].depends_on \in Ids(tasks)

\* C34: every task in a terminal status (done, failed, cancelled) has
\* completed_at set.
TerminalHasCompletedAt ==
    \A i \in Ids(tasks) :
        tasks[i].status \in {"done", "failed", "cancelled"} => tasks[i].completed_at /= "NULL"

-----------------------------------------------------------------------------
(* What an iteration makes of the output of the agent: the first iteration  *)
(* of an execution receives the messages, later iterations nothing new      *)

MaxLines == 3

\* assistant messages with one text part each, up to MaxLines of them, and
\* a tool call before them or not
TextMessages ==
    UNION {[1..n -> {[role |-> "assistant", part |-> "text", text |-> line] : line \in Lines}]
              : n \in 0..MaxLines}

OutputMessages == TextMessages \cup {<<ToolMessage>> \o texts : texts \in TextMessages}

DetectArrivals ==
    IF pc /= "iterating" THEN {}
    ELSE IF FirstIteration /\ (sdk.pc = "polling" => session.messages = <<>>)
    THEN OutputMessages ELSE {<<>>}

\* the stdout of the process for the messages it produced
rawOutputOf(messages) ==
    IF \E i \in 1..Len(messages) : messages[i].part = "tool"
    THEN {"text", "tool_call"} ELSE {"text"}

DetectCreates ==
    [prompt : {APrompt}, project_path : {NoPath}, created_by : {"undefined"}, source : {"cli"},
     priority : {"absent"}, max_iterations : {<<2>>},
     max_retries : {<<1>>}, depends_on : {0}]

NextDetect ==
    \/ \E f \in DetectCreates : CreateFirst(f)
    \/ WaitForRetry
    \/ Start
    \/ ProcessNext
    \/ RunTaskWithLoop
    \/ SendPrompt
    \/ \E arrival \in DetectArrivals, late \in BOOLEAN :
          Poll("idle", arrival, <<>>, late, "none",
               extractOutputFromMessages(session.messages \o arrival))
    \/ \E arrival \in DetectArrivals :
          CliIterationCloses(arrival, <<>>, FALSE, extractOutputFromMessages(arrival),
                             rawOutputOf(arrival), TRUE)
    \/ IterationResolves
    \/ IterationRejects
    \/ Notified

SpecDetect == Init /\ [][NextDetect]_vars

\* the phrase occurs in the output, in whatever case
Says(output, phrase) ==
    \E i \in 1..Len(output) : phrase \in Phrases[toLowerCase(output[i])]

StrongSignals == {"[task_complete]", "todos completed:", "all todos completed"}

WeakSignals ==
    {"task complete", "task completed", "successfully completed", "all done",
     "finished successfully", "completed successfully", "nothing left to do",
     "all steps completed"}

\* a planning phrase occurs after the last occurrence of "complete"
PlanningAfterComplete(output) ==
    \E i \in 1..Len(output) :
        /\ Says(<<output[i]>>, "complete")
        /\ \A k \in (i + 1)..Len(output) : ~Says(<<output[k]>>, "complete")
        /\ \E j \in (i + 1)..Len(output), p \in {"i will", "i'll", "let me", "next i", "then i"} :
              Says(<<output[j]>>, p)

CompleteRule(output) ==
    \/ \E s \in StrongSignals : Says(output, s)
    \/ /\ \E s \in WeakSignals : Says(output, s)
       /\ ~PlanningAfterComplete(output)

\* the messages the iteration that ends in this step has received
Heard ==
    IF FirstIteration THEN session'.messages
    ELSE SubSeq(session'.messages, Len(session.messages) + 1, Len(session'.messages))

StoppingPhrases ==
    {"waiting for", "need more information", "please provide", "could you clarify",
     "what would you like", "should i proceed"}

WorkPhrases ==
    {"i will", "i'll", "let me", "first,", "next,", "then,", "step 1", "step 2",
     "here's my plan", "i need to", "working on", "processing", "executing", "creating",
     "todo", "in_progress", "pending"}

ToolActivity(messages) == \E i \in 1..Len(messages) : messages[i].part = "tool"

ContinuationRule(messages) ==
    LET output == extractOutputFromMessages(messages)
    IN  IF CompleteRule(output) THEN FALSE
        ELSE IF \E p \in StoppingPhrases : Says(output, p) THEN FALSE
        ELSE ToolActivity(messages) \/ \E p \in WorkPhrases : Says(output, p)

CancelledNeverRuns ==
    [][\A i \in Ids(tasks) :
          cancelTrue[i] =>
              /\ ~(tasks[i].status /= "running" /\ tasks'[i].status = "running")
              /\ ~(pc /= "iterating" /\ pc' = "iterating" /\ cur' = i)]_vars

-----------------------------------------------------------------------------
(* The daemon stays alive and every call it awaits returns: weak fairness   *)
(* of the steps of an execution                                            *)

SpecAlive == SpecTimeout /\ WF_vars(NextTimeout)

\* C38: while the daemon is alive and every runner call returns, every task
\* that enters running eventually leaves running.
RunningLeaves ==
    \A i \in 1..MaxTasks :
        (i \in Ids(tasks) /\ tasks[i].status = "running")
            ~> (i \in Ids(tasks) /\ tasks[i].status /= "running")

\* the steps of the daemon among those of NextDepends
DependsDaemon ==
    \/ WaitForRetry
    \/ Start
    \/ ProcessNext
    \/ RunTaskWithLoop
    \/ \E c, n \in BOOLEAN, s \in SessionIds : IterationReturns(c, n, s)
    \/ \E m \in {"exited_with_code_1", "agent_not_found"} : IterationThrows(m)
    \/ Notified

SpecDependsAlive == SpecDepends /\ WF_vars(DependsDaemon)

\* C39: a pending task whose parent has ended failed or cancelled eventually
\* reaches a terminal status.
DependentsSettle ==
    \A i \in 1..MaxTasks :
        (/\ i \in Ids(tasks)
         /\ tasks[i].status = "pending"
         /\ tasks[i].depends_on \in Ids(tasks)
         /\ tasks[tasks[i].depends_on].status \in {"failed", "cancelled"})
            ~> (i \in Ids(tasks) /\ tasks[i].status \in {"done", "failed", "cancelled"})

\* ---------------------------------------------------------------------
\* C40: every pending task has iteration = 0, no session_id and no
\* started_at, whatever the scheduler and the adapters have done; hence every
\* execution starts its iteration count from 1.
PendingIsFresh ==
    [][/\ \A i \in Ids(tasks') :
              tasks'[i].status = "pending" =>
                  /\ tasks'[i].iteration = 0
                  /\ tasks'[i].session_id = "NULL"
                  /\ tasks'[i].started_at = "NULL"
       /\ RunTaskWithLoop => tasks'[cur].iteration = 1]_vars

\* a task pending again for its retry, after an execution that had a session
PendingIsFreshWitness ==
    \E i \in Ids(tasks) :
        /\ tasks[i].status = "pending"
        /\ tasks[i].retry_count = 1
        /\ failures[i] = 1
        /\ tasks[i].iteration = 0
        /\ tasks[i].session_id = "NULL"
====
